---------------------------- MODULE Spec2Model ----------------------------
(***************************************************************************)
(* Model of the game session manager and of the Tic-Tac-Toe engine of      *)
(* grymbb (src/src/modules/games.rs) and of the two handlers that drive    *)
(* them (src/src/plugins/user/tic_tac_toe.rs, the start-game command, and  *)
(* src/src/plugins/bot/tic_tac_toe.rs, the button click).                  *)
(*                                                                         *)
(* and of the relay between the two clients (src/src/main.rs).             *)
(*                                                                         *)
(* Six specifications share the variables:                                 *)
(*   SpecSeat  one session `g`, its seats and turn order only;             *)
(*   SpecGame  one session `g`, driven by direct calls of the Game API;    *)
(*   SpecMgr   one GameManager, driven by direct calls of its operations;  *)
(*   Spec      the handlers, interleaved at their suspension points;       *)
(*   SpecRelay the dispatcher, its requester tasks and the producers;      *)
(*   SpecQueue the relay channel with more producers than it has room for. *)
(*                                                                         *)
(* Rust values are modelled as follows.  Vec<T> is a function on 0..n-1    *)
(* (so that the code's indices are the model's), Option<T> is a set with   *)
(* at most one element, HashMap<K,V> is a function on its key set, and the *)
(* iteration order of a HashMap, which the language leaves unspecified, is *)
(* a choice the caller of switch_player draws.  A player's first_name is   *)
(* only formatted into texts and is left out.                              *)
(***************************************************************************)
EXTENDS Integers, Sequences, FiniteSets, TLC

(***************************************************************************)
(* Bounds of the exploration.                                              *)
(***************************************************************************)
\* player (Telegram user) ids are drawn from 1..MaxPlayerId
MaxPlayerId == 3

\* SpecMgr: at most MaxIssued calls of new_id
MaxIssued == 3

\* SpecMgr: at most MaxGames sessions are stored at a time
MaxGames == 3

\* Spec: the start-game command is handled NumStarts times
NumStarts == 2

\* Spec: at most NumClicks button clicks are being handled at a time
NumClicks == 2

\* Spec: the buttons clicked are the first NumCells cells of CellOrder
NumCells == 5

\* Spec: the start-game command is sent by player 1, alone or in reply to a
\* message of a player in 1..MaxReplyId
MaxReplyId == 2

\* Spec: the buttons clicked carry a game id in 1..MaxClickId
MaxClickId == 1

\* Spec: at most MaxRaces click handlers begin while another click handler
\* is suspended
MaxRaces == 1

\* SpecRace: the click handlers click the first NumRaceCells cells of CellOrder
NumRaceCells == 6

\* SpecPolicy: should_retry is called with attempts 0..MaxAttempt, at most
\* MaxPolicyCalls times
MaxAttempt == 7
MaxPolicyCalls == 3

\* SpecPurge: the message ids of a purge make 1..MaxChunks chunks
MaxChunks == 3

\* SpecRelay: at most MaxSent requests are passed to tx.send
MaxSent == 3

\* SpecRelay: chats are drawn from 1..MaxChat
MaxChat == 2

\* SpecRelay: message contents are drawn from 1..MaxInput
MaxInput == 2

\* SpecQueue: at most MaxProduced requests are passed to tx.send
MaxProduced == 12

PlayerIds == 1..MaxPlayerId

(***************************************************************************)
(* Program constants.                                                      *)
(***************************************************************************)
\* ttt.generate_board(3..=3)
BoardSize == 3

\* mpsc::channel::<Message>(10)
QueueDepth == 10

\* const SYMBOLS: [char; 3]; SYMBOLS[2] marks an empty cell
SYMBOLS == [i \in 0..2 |-> IF i = 0 THEN "O" ELSE IF i = 1 THEN "X" ELSE "E"]

\* Option<T>
None == {}
Some(x) == {x}

\* Vec<T> from a sequence, and its length
VecOf(s) == [i \in 0..(Len(s) - 1) |-> s[i + 1]]
VecLen(v) == Cardinality(DOMAIN v)

(***************************************************************************)
(* Player                                                                  *)
(***************************************************************************)
\* Player::new: the symbol is overwritten by TicTacToe::new and add_player
Player_new(id) == [id |-> id, symbol |-> SYMBOLS[id % 3]]

(***************************************************************************)
(* TicTacToe / Game                                                        *)
(***************************************************************************)
\* mutant of TicTacToe_new: the players keep the symbols of Player::new
TicTacToe_new_keep_symbols(id, players) ==
    LET keys == {players[i].id : i \in DOMAIN players}
        lastOf(k) == CHOOSE i \in DOMAIN players :
                        /\ players[i].id = k
                        /\ \A j \in DOMAIN players : players[j].id = k => j <= i
    IN  [id             |-> id,
         board          |-> VecOf(<< >>),
         players        |-> [k \in keys |-> players[lastOf(k)]],
         state          |-> "Start",
         winner         |-> None,
         last_player    |-> 0,
         current_player |-> players[1].id]

\* TicTacToe::new(id, players): players is a non-empty sequence of Player.
\* Collecting into the HashMap keeps, for a repeated id, the last entry.
TicTacToe_new(id, players) ==
    LET first_player_id == players[1].id
        marked == [i \in DOMAIN players |->
                     [players[i] EXCEPT !.symbol =
                        IF players[i].id = first_player_id
                        THEN SYMBOLS[0] ELSE SYMBOLS[1]]]
        keys == {marked[i].id : i \in DOMAIN marked}
        lastOf(k) == CHOOSE i \in DOMAIN marked :
                        /\ marked[i].id = k
                        /\ \A j \in DOMAIN marked : marked[j].id = k => j <= i
    IN  [id             |-> id,
         board          |-> VecOf(<< >>),
         players        |-> [k \in keys |-> marked[lastOf(k)]],
         state          |-> "Start",
         winner         |-> None,
         last_player    |-> 0,
         current_player |-> first_player_id]

\* TicTacToe::generate_board(size): size.start() columns of size.end() rows
generate_board(g, columns, rows) ==
    [g EXCEPT !.board = [c \in 0..(columns - 1) |->
                           [r \in 0..(rows - 1) |-> SYMBOLS[2]]]]

\* Game::players_limit
players_limit == 2

\* Game::has_player
has_player(g, id) == id \in DOMAIN g.players

\* Game::get_player
get_player(g, id) == IF id \in DOMAIN g.players THEN Some(g.players[id]) ELSE None

\* Game::current_player
current_player(g) == get_player(g, g.current_player)

\* Game::is_over
is_over(g) == g.state = "End"

\* Game::winner: get_player(g.winner?)
winner(g) == IF g.winner = None THEN None
             ELSE get_player(g, CHOOSE w \in g.winner : TRUE)

\* Game::available_seats
available_seats(g) == players_limit - Cardinality(DOMAIN g.players)

\* Game::set_current_player
set_current_player(g, id) == [g EXCEPT !.current_player = id]

\* mutant of SwitchTargets: the find without its `!=` filter
SwitchTargets_unfiltered(g) == DOMAIN g.players

\* The keys self.players.keys().find(|id| **id != self.current_player) can
\* return: the HashMap iterates in an unspecified order, so any key that
\* differs from the current player can be the first one found.
SwitchTargets(g) == {k \in DOMAIN g.players : k # g.current_player}

\* What the find of switch_player can yield: a key, or 0 for "none found".
SwitchChoices(g) == IF SwitchTargets(g) = {} THEN {0} ELSE SwitchTargets(g)

\* mutant of switch_player: the turn is not passed on
switch_player_none(g, nxt) ==
    [g EXCEPT !.last_player = g.current_player]

\* mutant of switch_player: with no other player the current one stays
switch_player_stay(g, nxt) ==
    IF SwitchTargets(g) # {}
    THEN [g EXCEPT !.last_player = g.current_player, !.current_player = nxt]
    ELSE [g EXCEPT !.last_player = g.current_player]

\* TicTacToe::switch_player, with nxt \in SwitchChoices(g) the key found
switch_player(g, nxt) ==
    IF SwitchTargets(g) # {}
    THEN [g EXCEPT !.last_player = g.current_player, !.current_player = nxt]
    ELSE [g EXCEPT !.last_player = g.current_player, !.current_player = 0]

\* mutant of LineOf: the second diagonal is not scanned
LineOf_three_scans(board, symbol) ==
    LET board_size == VecLen(board)
    IN  \/ \E c \in DOMAIN board : \A r \in DOMAIN board[c] : board[c][r] = symbol
        \/ \E i \in 0..(board_size - 1) : \A c \in DOMAIN board : board[c][i] = symbol
        \/ \A i \in 0..(board_size - 1) : board[i][i] = symbol

\* The four scans of Game::play for a line of `symbol` on `board`.
LineOf(board, symbol) ==
    LET board_size == VecLen(board)
    IN  \/ \E c \in DOMAIN board : \A r \in DOMAIN board[c] : board[c][r] = symbol
        \/ \E i \in 0..(board_size - 1) : \A c \in DOMAIN board : board[c][i] = symbol
        \/ \A i \in 0..(board_size - 1) : board[i][i] = symbol
        \/ \A i \in 0..(board_size - 1) : board[board_size - i - 1][i] = symbol

\* mutant of BoardFull: `any` column without an empty cell, instead of `all`
BoardFull_any(board) ==
    \E c \in DOMAIN board : \A r \in DOMAIN board[c] : board[c][r] # SYMBOLS[2]

\* the draw test of Game::play: no cell is SYMBOLS[2]
BoardFull(board) ==
    \A c \in DOMAIN board : \A r \in DOMAIN board[c] : board[c][r] # SYMBOLS[2]

\* mutant of play: the cell is not tested for SYMBOLS[2]
play_any_cell(g, column, row, nxt) ==
    IF g.current_player \in DOMAIN g.players
    THEN LET player == g.players[g.current_player]
             symbol == player.symbol
             board  == [g.board EXCEPT ![column][row] = symbol]
             won    == LineOf(board, symbol)
             g1     == [g EXCEPT !.board = board]
             g2     == IF won
                       THEN [g1 EXCEPT !.winner = Some(player.id), !.state = "End"]
                       ELSE IF BoardFull(board)
                            THEN [g1 EXCEPT !.state = "End"]
                            ELSE g1
         IN  [ok |-> TRUE, g |-> switch_player(g2, nxt)]
    ELSE [ok |-> FALSE, g |-> g]

\* Game::play(column, row); nxt is the key its switch_player finds.
\* Returns the bool and the session afterwards.
play(g, column, row, nxt) ==
    IF /\ g.current_player \in DOMAIN g.players
       /\ g.board[column][row] = SYMBOLS[2]
    THEN LET player == g.players[g.current_player]
             symbol == player.symbol
             board  == [g.board EXCEPT ![column][row] = symbol]
             won    == LineOf(board, symbol)
             g1     == [g EXCEPT !.board = board]
             g2     == IF won
                       THEN [g1 EXCEPT !.winner = Some(player.id), !.state = "End"]
                       ELSE IF BoardFull(board)
                            THEN [g1 EXCEPT !.state = "End"]
                            ELSE g1
         IN  [ok |-> TRUE, g |-> switch_player(g2, nxt)]
    ELSE [ok |-> FALSE, g |-> g]

\* mutant of add_player: the limit test is missing
add_player_no_limit(g, player) ==
    IF player.id \in DOMAIN g.players
    THEN [ok |-> FALSE, g |-> g]
    ELSE [ok |-> TRUE,
          g  |-> [g EXCEPT
                    !.players = [k \in DOMAIN g.players \cup {player.id} |->
                                   IF k = player.id
                                   THEN [player EXCEPT !.symbol = SYMBOLS[1]]
                                   ELSE g.players[k]],
                    !.state = "Playing"]]

\* mutant of add_player: the contains_key test is missing
add_player_no_seated_test(g, player) ==
    IF Cardinality(DOMAIN g.players) >= 2 /\ player.id \notin DOMAIN g.players
    THEN [ok |-> FALSE, g |-> g]
    ELSE [ok |-> TRUE,
          g  |-> [g EXCEPT
                    !.players = [k \in DOMAIN g.players \cup {player.id} |->
                                   IF k = player.id
                                   THEN [player EXCEPT !.symbol = SYMBOLS[1]]
                                   ELSE g.players[k]],
                    !.state = "Playing"]]

\* Game::add_player(player)
add_player(g, player) ==
    IF player.id \in DOMAIN g.players
    THEN [ok |-> FALSE, g |-> g]
    ELSE IF Cardinality(DOMAIN g.players) >= players_limit
         THEN [ok |-> FALSE, g |-> g]
         ELSE [ok |-> TRUE,
               g  |-> [g EXCEPT
                         !.players = [k \in DOMAIN g.players \cup {player.id} |->
                                        IF k = player.id
                                        THEN [player EXCEPT !.symbol = SYMBOLS[1]]
                                        ELSE g.players[k]],
                         !.state = "Playing"]]

(***************************************************************************)
(* GameManager.  active_games is a Vec<Game> of which only push, last,     *)
(* find and retain are used; it is modelled as a sequence.  The lock is    *)
(* taken and released inside each operation.                               *)
(***************************************************************************)
\* the index .iter().find(|g| g.id() == game_id) stops at, 0 for none
FindGame(active_games, game_id) ==
    IF \E i \in DOMAIN active_games : active_games[i].id = game_id
    THEN CHOOSE i \in DOMAIN active_games :
            /\ active_games[i].id = game_id
            /\ \A j \in 1..(i - 1) : active_games[j].id # game_id
    ELSE 0

\* GameManager::new_id
new_id(active_games) ==
    LET last_id == IF Len(active_games) = 0 THEN 0
                   ELSE active_games[Len(active_games)].id
    IN  last_id + 1

\* GameManager::add_game
add_game(active_games, game) == Append(active_games, game)

\* GameManager::get_game: a clone of the first entry with that id
get_game(active_games, game_id) ==
    IF FindGame(active_games, game_id) = 0 THEN None
    ELSE Some(active_games[FindGame(active_games, game_id)])

\* mutant of update_game: the entry is dropped and the session pushed
update_game_push(active_games, game) ==
    IF FindGame(active_games, game.id) = 0
    THEN [ok |-> FALSE, games |-> active_games]
    ELSE [ok |-> TRUE,
          games |-> Append(SelectSeq(active_games, LAMBDA x : x.id # game.id), game)]

\* mutant of update_game: the stored entry is kept
update_game_keep(active_games, game) ==
    IF FindGame(active_games, game.id) = 0
    THEN [ok |-> FALSE, games |-> active_games]
    ELSE [ok |-> TRUE, games |-> active_games]

\* mutant of update_game: a session that is not stored is pushed
update_game_upsert(active_games, game) ==
    IF FindGame(active_games, game.id) = 0
    THEN [ok |-> TRUE, games |-> Append(active_games, game)]
    ELSE [ok |-> TRUE,
          games |-> [active_games EXCEPT ![FindGame(active_games, game.id)] = game]]

\* GameManager::update_game: overwrites the first entry with that id;
\* ok = FALSE is the panic of .expect("failed to find game")
update_game(active_games, game) ==
    IF FindGame(active_games, game.id) = 0
    THEN [ok |-> FALSE, games |-> active_games]
    ELSE [ok |-> TRUE,
          games |-> [active_games EXCEPT ![FindGame(active_games, game.id)] = game]]

\* mutant of remove_game: the first entry with the id is removed by moving
\* the last entry into its place (Vec::swap_remove)
remove_game_swap(active_games, game) ==
    LET i == FindGame(active_games, game.id)
        n == Len(active_games)
    IN  IF i = 0 THEN active_games
        ELSE SubSeq([active_games EXCEPT ![i] = active_games[n]], 1, n - 1)

\* GameManager::remove_game
remove_game(active_games, game) ==
    SelectSeq(active_games, LAMBDA x : x.id # game.id)

(***************************************************************************)
(* State.                                                                  *)
(***************************************************************************)
VARIABLES
    g,      \* SpecSeat, SpecGame: the session under test
    pre,    \* the session (SpecMgr: the collection) before the last call
    ev,     \* the last call: its name, its arguments and what it returned
    games,  \* SpecMgr, Spec: GameManager::active_games
    issued, \* SpecMgr, Spec: the ids new_id returned so far, in call order, each
            \*          with whether a session was added under it
    queue,  \* Spec: the requests in the relay channel, oldest first
    starts, \* Spec: the start-game handlers, each with its position and
            \*       the session it holds
    clicks, \* Spec: the click handlers, each with its position, the
            \*       callback's sender, game id and cell, and its copy of
            \*       the session
    races,  \* Spec: how many click handlers began while another one was
            \*       suspended
    disp,   \* SpecRelay, SpecQueue: the dispatcher (handle_message): its
            \*       position, the request it is executing and the nonce
    reqs,   \* SpecRelay: the requester tasks the dispatcher spawned, in
            \*       spawn order
    calls,  \* SpecRelay, SpecQueue: the calls made on the two clients, in
            \*       call order
    sent,   \* SpecRelay, SpecQueue: the requests passed to tx.send, in
            \*       call order
    senders,\* SpecRelay, SpecQueue: the requests of the producers that are
            \*       suspended in tx.send, longest-waiting first
    lock,   \* SpecMgr, Spec: whether the Mutex around active_games is held
            \*       when a step is over, that is while tasks are suspended
    policy, \* SpecPolicy: the calls of MyPolicy::should_retry so far, each
            \*       with the attempt passed and what it returned
    purge   \* SpecPurge: one purge handler: its position, the chunks, the
            \*       counters, and the platform calls and sleeps so far

vars == <<g, pre, ev, games, issued, queue, starts, clicks, races,
          disp, reqs, calls, sent, senders, lock, policy, purge>>

NoEvent == [op |-> "none", arg |-> << >>, ret |-> FALSE]

\* mutant of WithLock: the guard is still held after the operation returned
WithLock_held == ~lock /\ lock' = TRUE

\* a step that calls operations of the manager.  Each of them begins with
\* active_games.try_lock().expect("failed to lock active games"), which
\* panics when the Mutex is held, so that the step does not take place;
\* the guard is a local of the operation and is dropped when it returns
WithLock == ~lock /\ lock' = FALSE

(***************************************************************************)
(* SpecSeat: the seats of one session.  The session is created as the      *)
(* start-game handler creates it (TicTacToe::new with the sender and,      *)
(* optionally, the replied-to user) and is then driven by any sequence of  *)
(* add_player, switch_player and set_current_player calls.                 *)
(***************************************************************************)
\* the player lists the start-game handler can pass to TicTacToe::new
InitialPlayers ==
    {<<Player_new(a)>> : a \in PlayerIds}
        \cup {<<Player_new(a), Player_new(b)>> : a \in PlayerIds, b \in PlayerIds}

\* the variables of the manager, which the session specifications leave alone
IdleDispatcher == [pc |-> "recv", msg |-> None, number |-> 0]
\* no purge handler runs
NoPurge == [pc |-> "idle"]
NoRelay ==
    /\ disp = IdleDispatcher
    /\ reqs = << >> /\ calls = << >> /\ sent = << >> /\ senders = << >>
    /\ policy = << >> /\ purge = NoPurge
SameRelay == UNCHANGED <<disp, reqs, calls, sent, senders, policy, purge>>
NoHandlers ==
    queue = << >> /\ starts = << >> /\ clicks = << >> /\ races = 0 /\ NoRelay
SameHandlers == UNCHANGED <<queue, starts, clicks, races>> /\ SameRelay
NoManager == games = << >> /\ issued = << >> /\ lock = FALSE /\ NoHandlers
SameManager == UNCHANGED <<games, issued, lock>> /\ SameHandlers

\* the same, with player 1 the sender of the command
StartPlayers == {ps \in InitialPlayers : ps[1].id = 1}

InitSeat ==
    /\ \E ps \in InitialPlayers : g = TicTacToe_new(1, ps)
    /\ pre = g
    /\ ev = NoEvent
    /\ NoManager

AddPlayer(p) ==
    LET r == add_player(g, Player_new(p))
    IN  /\ g' = r.g
        /\ pre' = g
        /\ ev' = [op |-> "add_player", arg |-> <<p>>, ret |-> r.ok]
        /\ SameManager

SwitchPlayer ==
    /\ \E nxt \in SwitchChoices(g) : g' = switch_player(g, nxt)
    /\ pre' = g
    /\ ev' = [op |-> "switch_player", arg |-> << >>, ret |-> TRUE]
    /\ SameManager

SetCurrentPlayer(id) ==
    /\ g' = set_current_player(g, id)
    /\ pre' = g
    /\ ev' = [op |-> "set_current_player", arg |-> <<id>>, ret |-> TRUE]
    /\ SameManager

NextSeat ==
    \/ \E p \in PlayerIds : AddPlayer(p)
    \/ SwitchPlayer
    \/ \E id \in PlayerIds : SetCurrentPlayer(id)

SpecSeat == InitSeat /\ [][NextSeat]_vars

(***************************************************************************)
(* SpecGame: the moves of one session.  The session starts as the          *)
(* start-game handler leaves it (TicTacToe::new, then generate_board(3..=3))*)
(* and is driven by add_player and play calls; set_current_player is       *)
(* called as the click handler calls it, for a seated player when the      *)
(* session has no current player.                                          *)
(***************************************************************************)
InitGame ==
    /\ \E ps \in StartPlayers :
         g = generate_board(TicTacToe_new(1, ps), BoardSize, BoardSize)
    /\ pre = g
    /\ ev = NoEvent
    /\ NoManager

Play(column, row) ==
    /\ column \in DOMAIN g.board
    /\ row \in DOMAIN g.board[column]
    /\ \E nxt \in SwitchChoices(g) :
         LET r == play(g, column, row, nxt)
         IN  /\ g' = r.g
             /\ pre' = g
             /\ ev' = [op |-> "play", arg |-> <<column, row>>, ret |-> r.ok]
    /\ SameManager

Join(p) == AddPlayer(p)

TakeTurn(id) ==
    /\ current_player(g) = None
    /\ has_player(g, id)
    /\ SetCurrentPlayer(id)

NextGame ==
    \/ \E p \in PlayerIds : Join(p)
    \/ \E c \in 0..(BoardSize - 1), r \in 0..(BoardSize - 1) : Play(c, r)
    \/ \E id \in PlayerIds : TakeTurn(id)

SpecGame == InitGame /\ [][NextGame]_vars

(***************************************************************************)
(* SpecTurn: whose turn it is.  The session of SpecGame, driven by any     *)
(* sequence of calls of play (on a few cells), add_player, switch_player   *)
(* and set_current_player, the last with the id of any player, seated or   *)
(* not.                                                                    *)
(***************************************************************************)
TurnCells == {<<0, 0>>, <<1, 1>>, <<0, 1>>, <<2, 2>>}

NextTurn ==
    \/ \E p \in PlayerIds : AddPlayer(p)
    \/ \E cell \in TurnCells : Play(cell[1], cell[2])
    \/ SwitchPlayer
    \/ \E id \in PlayerIds : SetCurrentPlayer(id)

SpecTurn == InitGame /\ [][NextTurn]_vars

(***************************************************************************)
(* SpecMgr: one GameManager and any sequence of calls of its five          *)
(* operations.  A session is added under an id that new_id returned and    *)
(* that no session was added under yet, as the start-game handler does;    *)
(* update_game is called with a copy from get_game, left as it is or       *)
(* changed by add_player, or with a session that is not stored.            *)
(***************************************************************************)
GameIds == 1..MaxIssued

\* a session as the start-game handler builds it
NewSession(id, ps) == generate_board(TicTacToe_new(id, ps), BoardSize, BoardSize)

InitMgr ==
    /\ games = << >>
    /\ issued = << >>
    /\ g = NewSession(1, <<Player_new(1)>>)
    /\ pre = << >>
    /\ ev = NoEvent
    /\ lock = FALSE
    /\ NoHandlers

MgrFrame == UNCHANGED g /\ pre' = games /\ WithLock /\ SameHandlers

NewId ==
    /\ Len(issued) < MaxIssued
    /\ issued' = Append(issued, [id |-> new_id(games), added |-> FALSE])
    /\ ev' = [op |-> "new_id", arg |-> << >>, ret |-> TRUE]
    /\ UNCHANGED games
    /\ MgrFrame

AddGame(i, ps) ==
    /\ i \in DOMAIN issued
    /\ ~issued[i].added
    /\ Len(games) < MaxGames
    /\ games' = add_game(games, NewSession(issued[i].id, ps))
    /\ issued' = [issued EXCEPT ![i].added = TRUE]
    /\ ev' = [op |-> "add_game", arg |-> <<issued[i].id>>, ret |-> TRUE]
    /\ MgrFrame

GetGame(id) ==
    /\ ev' = [op |-> "get_game", arg |-> <<id>>, ret |-> get_game(games, id) # None]
    /\ UNCHANGED <<games, issued>>
    /\ MgrFrame

\* update_game(get_game(id)) with nothing in between
RoundTrip(id) ==
    /\ get_game(games, id) # None
    /\ LET copy == CHOOSE x \in get_game(games, id) : TRUE
           r    == update_game(games, copy)
       IN  /\ games' = r.games
           /\ ev' = [op |-> "round_trip", arg |-> <<id>>, ret |-> r.ok]
    /\ UNCHANGED issued
    /\ MgrFrame

\* get_game(id), add_player(p) on the copy, update_game(copy); for an id
\* that is not stored, update_game of a session built under that id
UpdateGame(id, p) ==
    /\ LET copy == IF get_game(games, id) = None
                   THEN NewSession(id, <<Player_new(p)>>)
                   ELSE add_player(CHOOSE x \in get_game(games, id) : TRUE,
                                   Player_new(p)).g
           r    == update_game(games, copy)
       IN  /\ games' = r.games
           /\ ev' = [op |-> "update_game", arg |-> <<id, p>>, ret |-> r.ok]
    /\ UNCHANGED issued
    /\ MgrFrame

RemoveGame(id) ==
    /\ games' = remove_game(games, NewSession(id, <<Player_new(1)>>))
    /\ ev' = [op |-> "remove_game", arg |-> <<id>>, ret |-> TRUE]
    /\ UNCHANGED issued
    /\ MgrFrame

NextMgr ==
    \/ NewId
    \/ \E i \in 1..MaxIssued, ps \in StartPlayers : AddGame(i, ps)
    \/ \E id \in GameIds : GetGame(id)
    \/ \E id \in GameIds : RoundTrip(id)
    \/ \E id \in GameIds, p \in PlayerIds : UpdateGame(id, p)
    \/ \E id \in GameIds : RemoveGame(id)

SpecMgr == InitMgr /\ [][NextMgr]_vars

(***************************************************************************)
(* Spec: the handlers.  The runtime is tokio's current_thread flavor, so a *)
(* handler runs alone from one .await to the next; each action below is    *)
(* one such stretch.  An .await after which the handler only returns is    *)
(* folded into the stretch before it.                                      *)
(*                                                                         *)
(*   start-game (plugins/user/tic_tac_toe.rs):                             *)
(*     StartBegin   new_id, TicTacToe::new, generate_board, up to tx.send  *)
(*     StartSend    the send completes (the channel has room), add_game    *)
(*   click (plugins/bot/tic_tac_toe.rs):                                   *)
(*     ClickBegin      get_game and the branches up to the first .await    *)
(*     ClickAfterJoin  after the "joined_game" answer was sent             *)
(*     ClickCommit     after the message was edited: update or remove      *)
(*     ClickError      an awaited platform call returns Err, `?` returns   *)
(* The dispatcher does not touch the GameManager; Spec is the handlers     *)
(* alone and SpecRelay, below, is the dispatcher with its producers.       *)
(***************************************************************************)
StartTasks == 1..NumStarts
ClickTasks == 1..NumClicks

CellOrder ==
    <<<<0, 0>>, <<1, 1>>, <<0, 1>>, <<2, 2>>, <<0, 2>>,
      <<1, 0>>, <<1, 2>>, <<2, 0>>, <<2, 1>>>>

ClickCells == {CellOrder[i] : i \in {j \in DOMAIN CellOrder : j <= NumCells}}

CommandPlayers ==
    {ps \in StartPlayers : \A i \in DOMAIN ps : ps[i].id <= MaxReplyId}

IdleStart == [pc |-> "idle", game |-> None]
IdleClick == [pc |-> "idle", sender |-> 0, game_id |-> 0,
              column |-> 0, row |-> 0, game |-> None]

\* Message::to_bot().send_via_bot_message(chat, input)
ViaBotMessage(game) ==
    [action |-> "SendViaBotMessage", recipient |-> "Bot",
     chat |-> 1, message_id |-> 0, input |-> game.id]

Init ==
    /\ games = << >>
    /\ queue = << >>
    /\ starts = [t \in StartTasks |-> IdleStart]
    /\ clicks = [t \in ClickTasks |-> IdleClick]
    /\ ev = NoEvent
    /\ g = NewSession(1, <<Player_new(1)>>)
    /\ pre = << >>
    /\ issued = << >>
    /\ races = 0
    /\ lock = FALSE
    /\ NoRelay

Frame == UNCHANGED <<g, pre, issued>> /\ SameRelay

\* tasks are interchangeable: a handler that begins takes the first free one;
\* the start-game handlers run once each, so that task t is the t-th to call
\* new_id and issued[t] is its id
FirstFree(tasks, t) == tasks[t].pc = "idle" /\ \A u \in 1..(t - 1) : tasks[u].pc # "idle"

\* the last step: which handler took it and what it answered or did; arg
\* is the click (sender, game id, column, row) a handler began with and,
\* for update_game at the end of a move, the entry that was stored under
\* the id
Event(op, click, ans) == [op |-> op, arg |-> click, ret |-> ans]

StartBegin(t, ps) ==
    /\ FirstFree(starts, t)
    /\ starts' = [starts EXCEPT
                    ![t] = [pc |-> "send",
                            game |-> Some(NewSession(new_id(games), ps))]]
    /\ issued' = Append(issued, [id |-> new_id(games), added |-> FALSE])
    /\ ev' = Event("start", << >>, "new_id")
    /\ WithLock
    /\ UNCHANGED <<games, queue, clicks, races>>
    /\ UNCHANGED <<g, pre>>
    /\ SameRelay

\* mutant of StartSend: the request is pushed and the session is not added
StartSend_no_add(t) ==
    /\ starts[t].pc = "send"
    /\ disp.pc # "stopped"
    /\ Len(queue) < QueueDepth
    /\ LET game == CHOOSE x \in starts[t].game : TRUE
       IN  queue' = Append(queue, ViaBotMessage(game))
    /\ starts' = [starts EXCEPT ![t] = [pc |-> "done", game |-> None]]
    /\ ev' = Event("start", << >>, "add_game")
    /\ UNCHANGED <<games, issued, lock>>
    /\ UNCHANGED <<clicks, races>>
    /\ UNCHANGED <<g, pre>>
    /\ SameRelay

\* tx.send(..).await? resumes.  The channel is closed when the dispatcher
\* task has ended (its Receiver is dropped): send returns Err and `?`
\* returns it.  Otherwise the request is pushed, and add_game follows in
\* the same stretch
StartSend(t) ==
    /\ starts[t].pc = "send"
    /\ IF disp.pc = "stopped"
       THEN /\ ev' = Event("start", << >>, "send_error")
            /\ UNCHANGED <<queue, games, issued, lock>>
       ELSE /\ Len(queue) < QueueDepth
            /\ LET game == CHOOSE x \in starts[t].game : TRUE
               IN  /\ queue' = Append(queue, ViaBotMessage(game))
                   /\ games' = add_game(games, game)
            /\ issued' = [issued EXCEPT ![t].added = TRUE]
            /\ ev' = Event("start", << >>, "add_game")
            /\ WithLock
    /\ starts' = [starts EXCEPT ![t] = [pc |-> "done", game |-> None]]
    /\ UNCHANGED <<clicks, races>>
    /\ UNCHANGED <<g, pre>>
    /\ SameRelay

\* A stretch of a click handler ends with the handler suspended or
\* returned (task) and with an answer to the callback or an outcome (ans).

\* game.play(column, row) and what follows up to answer.edit(..).await;
\* k is the handler's record, nxt the key play's switch_player finds
ClickPlays(k, game, nxt) ==
    LET r == play(game, k.column, k.row, nxt)
    IN  IF ~r.ok
        THEN [task |-> IdleClick, ans |-> "ocupied_cell"]
        ELSE [task |-> [k EXCEPT !.pc = "editing", !.game = Some(r.g)],
              ans  |-> "played"]

\* what the handler does with the copy get_game returned, up to its first
\* .await
ClickOn(k, game, nxt) ==
    IF ~has_player(game, k.sender) /\ available_seats(game) = 0
    THEN [task |-> IdleClick, ans |-> "not_in_game"]
    ELSE IF ~has_player(game, k.sender) /\ available_seats(game) > 0
    THEN LET r == add_player(game, Player_new(k.sender))
         IN  IF r.ok
             THEN [task |-> [k EXCEPT !.pc = "joined", !.game = Some(r.g)],
                   ans  |-> "joined_game"]
             ELSE [task |-> IdleClick, ans |-> "game_full"]
    ELSE IF current_player(game) # None
    THEN IF game.current_player # k.sender
         THEN [task |-> IdleClick, ans |-> "not_your_turn"]
         ELSE ClickPlays(k, game, nxt)
    ELSE [task |-> IdleClick, ans |-> "not_your_turn"]

\* mutant of ClickBegin: get_game hands out the stored entry itself, so
\* that what the handler does to it is done to the manager's session
ClickBegin_shared(t, sender, game_id, column, row) ==
    /\ FirstFree(clicks, t)
    /\ IF \E u \in ClickTasks : clicks[u].pc # "idle"
       THEN races < MaxRaces /\ races' = races + 1
       ELSE UNCHANGED races
    /\ LET k == [pc |-> "idle", sender |-> sender, game_id |-> game_id,
                 column |-> column, row |-> row, game |-> None]
           click == <<sender, game_id, column, row>>
       IN  IF get_game(games, game_id) = None
           THEN /\ clicks' = [clicks EXCEPT ![t] = IdleClick]
                /\ ev' = Event("click_begin", click, "game_not_found")
                /\ UNCHANGED games
           ELSE LET game == CHOOSE x \in get_game(games, game_id) : TRUE
                IN  \E nxt \in SwitchChoices(game) :
                       LET r == ClickOn(k, game, nxt)
                       IN  /\ clicks' = [clicks EXCEPT ![t] = r.task]
                           /\ ev' = Event("click_begin", click, r.ans)
                           /\ games' = IF r.task.game = None THEN games
                                       ELSE update_game(games,
                                              CHOOSE x \in r.task.game : TRUE).games
    /\ WithLock
    /\ UNCHANGED <<queue, starts>>
    /\ Frame

ClickBegin(t, sender, game_id, column, row) ==
    /\ FirstFree(clicks, t)
    /\ IF \E u \in ClickTasks : clicks[u].pc # "idle"
       THEN races < MaxRaces /\ races' = races + 1
       ELSE UNCHANGED races
    /\ LET k == [pc |-> "idle", sender |-> sender, game_id |-> game_id,
                 column |-> column, row |-> row, game |-> None]
           click == <<sender, game_id, column, row>>
       IN  IF get_game(games, game_id) = None
           THEN /\ clicks' = [clicks EXCEPT ![t] = IdleClick]
                /\ ev' = Event("click_begin", click, "game_not_found")
           ELSE LET game == CHOOSE x \in get_game(games, game_id) : TRUE
                IN  \E nxt \in SwitchChoices(game) :
                       /\ clicks' = [clicks EXCEPT ![t] = ClickOn(k, game, nxt).task]
                       /\ ev' = Event("click_begin", click, ClickOn(k, game, nxt).ans)
    /\ WithLock
    /\ UNCHANGED <<games, queue, starts>>
    /\ Frame

ClickAfterJoin(t) ==
    /\ clicks[t].pc = "joined"
    /\ LET k    == clicks[t]
           game == CHOOSE x \in k.game : TRUE
       IN  IF current_player(game) = None
           THEN LET mine == set_current_player(game, k.sender)
                IN  \E nxt \in SwitchChoices(mine) :
                       /\ clicks' = [clicks EXCEPT ![t] = ClickPlays(k, mine, nxt).task]
                       /\ ev' = Event("click_joined", << >>, ClickPlays(k, mine, nxt).ans)
                       /\ UNCHANGED <<games, lock>>
           ELSE LET r == update_game(games, game)
                IN  /\ games' = r.games
                    /\ clicks' = [clicks EXCEPT ![t] = IdleClick]
                    /\ ev' = Event("click_joined", << >>,
                                   IF r.ok THEN "joined" ELSE "panic")
                    /\ WithLock
    /\ UNCHANGED <<queue, starts, races>>
    /\ Frame

ClickCommit(t) ==
    /\ clicks[t].pc = "editing"
    /\ LET game == CHOOSE x \in clicks[t].game : TRUE
       IN  IF is_over(game)
           THEN /\ games' = remove_game(games, game)
                /\ ev' = Event("click_commit", << >>, "removed")
           ELSE LET r == update_game(games, game)
                IN  /\ games' = r.games
                    /\ ev' = Event("click_commit", <<get_game(games, game.id)>>,
                                   IF r.ok THEN "updated" ELSE "panic")
    /\ clicks' = [clicks EXCEPT ![t] = IdleClick]
    /\ WithLock
    /\ UNCHANGED <<queue, starts, races>>
    /\ Frame

ClickError(t) ==
    /\ clicks[t].pc \in {"joined", "editing"}
    /\ clicks' = [clicks EXCEPT ![t] = IdleClick]
    /\ ev' = Event("click_error", << >>, "error")
    /\ UNCHANGED <<games, queue, starts, races, lock>>
    /\ Frame

Next ==
    \/ \E t \in StartTasks, ps \in CommandPlayers : StartBegin(t, ps)
    \/ \E t \in StartTasks : StartSend(t)
    \/ \E t \in ClickTasks, sender \in PlayerIds, game_id \in 1..MaxClickId,
          cell \in ClickCells : ClickBegin(t, sender, game_id, cell[1], cell[2])
    \/ \E t \in ClickTasks : ClickAfterJoin(t)
    \/ \E t \in ClickTasks : ClickCommit(t)
    \/ \E t \in ClickTasks : ClickError(t)

Spec == Init /\ [][Next]_vars

(***************************************************************************)
(* SpecRace: the click handlers on one game.  One start-game handler, and  *)
(* clicks on one cell more than in Spec, so that a cell is left for a      *)
(* second click while the click that completes a line is being committed.  *)
(***************************************************************************)
RaceCells == {CellOrder[i] : i \in {j \in DOMAIN CellOrder : j <= NumRaceCells}}

NextRace ==
    \/ \E ps \in CommandPlayers : StartBegin(1, ps)
    \/ StartSend(1)
    \/ \E t \in ClickTasks, sender \in PlayerIds, game_id \in 1..MaxClickId,
          cell \in RaceCells : ClickBegin(t, sender, game_id, cell[1], cell[2])
    \/ \E t \in ClickTasks : ClickAfterJoin(t)
    \/ \E t \in ClickTasks : ClickCommit(t)
    \/ \E t \in ClickTasks : ClickError(t)

SpecRace == Init /\ [][NextRace]_vars

(***************************************************************************)
(* The relay (main.rs).  A request is built with Message::to_bot() or      *)
(* Message::to_user() followed by one of send_message,                     *)
(* send_via_bot_message and edit_message, and passed to tx.send.  A chat,  *)
(* a message id and an InputMessage are numbers here; an unused field of a *)
(* request is 0.                                                           *)
(***************************************************************************)
Recipients == {"Bot", "User"}
Actions == {"SendMessage", "SendViaBotMessage", "EditMessage", "Undefined"}
Chats == 1..MaxChat
Inputs == 1..MaxInput

\* Message::to_bot: the action is Action::default()
to_bot ==
    [action |-> "Undefined", recipient |-> "Bot",
     chat |-> 0, message_id |-> 0, input |-> 0]

\* Message::to_user
to_user ==
    [action |-> "Undefined", recipient |-> "User",
     chat |-> 0, message_id |-> 0, input |-> 0]

\* Message::send_message
send_message(self, chat, input) ==
    [ok |-> TRUE,
     m  |-> [self EXCEPT !.action = "SendMessage", !.chat = chat, !.input = input]]

\* mutant of send_via_bot_message: the recipient is not looked at
send_via_bot_message_unchecked(self, chat, input) ==
    [ok |-> TRUE,
     m  |-> [self EXCEPT !.action = "SendViaBotMessage",
                         !.chat = chat, !.input = input]]

\* Message::send_via_bot_message; ok = FALSE is the panic
send_via_bot_message(self, chat, input) ==
    IF self.recipient = "User"
    THEN [ok |-> FALSE, m |-> self]
    ELSE [ok |-> TRUE,
          m  |-> [self EXCEPT !.action = "SendViaBotMessage",
                              !.chat = chat, !.input = input]]

\* Message::edit_message
edit_message(self, chat, message_id, input) ==
    [ok |-> TRUE,
     m  |-> [self EXCEPT !.action = "EditMessage", !.chat = chat,
                         !.message_id = message_id, !.input = input]]

\* the request a producer builds, or the panic of the builder
Build(recipient, act, chat, message_id, input) ==
    LET self == IF recipient = "Bot" THEN to_bot ELSE to_user
    IN  CASE act = "SendMessage"       -> send_message(self, chat, input)
          [] act = "SendViaBotMessage" -> send_via_bot_message(self, chat, input)
          [] act = "EditMessage"       -> edit_message(self, chat, message_id, input)
          [] OTHER                     -> [ok |-> TRUE, m |-> self]

\* mutant of tx_send: the request is pushed whatever the channel holds
tx_send_unbounded(pending, waiting, m) ==
    [queue |-> Append(pending, m), senders |-> waiting]

\* tx.send(m).await on the channel of mpsc::channel(10): the request is
\* pushed when the channel has room and no producer waits for room, and
\* the producer is suspended behind the waiting ones otherwise
tx_send(pending, waiting, m) ==
    IF Len(pending) < QueueDepth /\ waiting = << >>
    THEN [queue |-> Append(pending, m), senders |-> waiting]
    ELSE [queue |-> pending, senders |-> Append(waiting, m)]

\* mutant of session_call: every call goes to the bot client
session_call_bot(m) ==
    [handle |-> "bot",
     call |-> IF m.action = "SendMessage" THEN "send_message" ELSE "edit_message",
     chat |-> m.chat, message_id |-> m.message_id, input |-> m.input]

\* mutant of session_call: the call goes to the other client
session_call_swapped(m) ==
    [handle |-> IF m.recipient = "Bot" THEN "user" ELSE "bot",
     call |-> IF m.action = "SendMessage" THEN "send_message" ELSE "edit_message",
     chat |-> m.chat, message_id |-> m.message_id, input |-> m.input]

\* the call handle_message makes for SendMessage and EditMessage:
\* bot.send_message / user.send_message, bot.edit_message / user.edit_message
session_call(m) ==
    [handle |-> IF m.recipient = "Bot" THEN "bot" ELSE "user",
     call |-> IF m.action = "SendMessage" THEN "send_message" ELSE "edit_message",
     chat |-> m.chat, message_id |-> m.message_id, input |-> m.input]

\* the requester task spawned for a SendViaBotMessage request; query is the
\* text of its inline query once the bot session can observe it, answer
\* the Article the responder answered with
Requester(number, chat) ==
    [number |-> number, chat |-> chat, pc |-> "query",
     query |-> None, answer |-> None, outcome |-> "none"]

StoppedDispatcher == [pc |-> "stopped", msg |-> None, number |-> 0]

InitRelay ==
    /\ games = << >>
    /\ issued = << >>
    /\ g = NewSession(1, <<Player_new(1)>>)
    /\ pre = << >>
    /\ ev = NoEvent
    /\ lock = FALSE
    /\ NoHandlers

RelayFrame ==
    UNCHANGED <<g, pre, games, issued, starts, clicks, races, lock, policy, purge>>

(***************************************************************************)
(* SpecRelay: the dispatcher after its set-up (get_me, resolve_username),  *)
(* at the head of its loop, with producers that build any request and pass *)
(* it to tx.send.  Each action is a stretch of one task between two        *)
(* .awaits:                                                                *)
(*   Produce      a handler builds a request and calls tx.send             *)
(*   SendResume   a producer suspended in tx.send gets room and pushes     *)
(*   Recv         rx.recv() returns the oldest request; the match arm runs *)
(*                up to its first .await                                   *)
(*   CallReturns  send_message or edit_message returns Ok or Err           *)
(*   Respond      wait_for_inline_query returns an inline query or times   *)
(*                out; the query with the nonce is answered                *)
(*   ReqQuery     the requester task issues the inline query, which        *)
(*                reaches the bot session or fails before it does          *)
(*   ReqNext      results.next() returns a result, nothing, or an error    *)
(* rand::random::<i64>() is a number no earlier round trip drew; an inline *)
(* query that is not a requester's has text 0, and a result that is not    *)
(* the responder's has title 0.                                            *)
(***************************************************************************)
Produce(recipient, act, chat, message_id, input) ==
    /\ LET b == Build(recipient, act, chat, message_id, input)
           r == tx_send(queue, senders, b.m)
       IN  IF ~b.ok
           THEN /\ ev' = Event("produce", <<recipient, act>>, "panic")
                /\ UNCHANGED <<queue, senders, sent>>
           ELSE /\ queue' = r.queue
                /\ senders' = r.senders
                /\ sent' = Append(sent, b.m)
                /\ ev' = Event("produce", <<recipient, act>>,
                               IF r.senders = senders THEN "enqueued"
                               ELSE "suspended")
    /\ UNCHANGED <<disp, reqs, calls>>
    /\ RelayFrame

SendResume ==
    /\ senders # << >>
    /\ Len(queue) < QueueDepth
    /\ queue' = Append(queue, Head(senders))
    /\ senders' = Tail(senders)
    /\ ev' = Event("send_resume", << >>, "enqueued")
    /\ UNCHANGED <<disp, reqs, calls, sent>>
    /\ RelayFrame

\* mutant of Recv: a request with action Undefined ends the loop
Recv_undefined_stops ==
    /\ disp.pc = "recv"
    /\ queue # << >>
    /\ queue' = Tail(queue)
    /\ LET m == Head(queue)
       IN  CASE m.action \in {"SendMessage", "EditMessage"} ->
                  /\ calls' = Append(calls, session_call(m))
                  /\ disp' = [pc |-> "call", msg |-> Some(m), number |-> 0]
                  /\ UNCHANGED reqs
             [] m.action = "SendViaBotMessage" ->
                  LET number == Len(reqs) + 1
                  IN  /\ reqs' = Append(reqs, Requester(number, m.chat))
                      /\ disp' = [pc |-> "respond", msg |-> Some(m),
                                  number |-> number]
                      /\ UNCHANGED calls
             [] OTHER ->
                  /\ disp' = StoppedDispatcher
                  /\ UNCHANGED <<reqs, calls>>
    /\ ev' = Event("recv",
                   IF Head(queue).action = "Undefined"
                   THEN <<"Undefined action">> ELSE << >>,
                   Head(queue).action)
    /\ UNCHANGED <<sent, senders>>
    /\ RelayFrame

Recv ==
    /\ disp.pc = "recv"
    /\ queue # << >>
    /\ queue' = Tail(queue)
    /\ LET m == Head(queue)
       IN  CASE m.action \in {"SendMessage", "EditMessage"} ->
                  /\ calls' = Append(calls, session_call(m))
                  /\ disp' = [pc |-> "call", msg |-> Some(m), number |-> 0]
                  /\ UNCHANGED reqs
             [] m.action = "SendViaBotMessage" ->
                  LET number == Len(reqs) + 1
                  IN  /\ reqs' = Append(reqs, Requester(number, m.chat))
                      /\ disp' = [pc |-> "respond", msg |-> Some(m),
                                  number |-> number]
                      /\ UNCHANGED calls
             [] OTHER ->
                  UNCHANGED <<disp, reqs, calls>>
    /\ ev' = Event("recv",
                   IF Head(queue).action = "Undefined"
                   THEN <<"Undefined action">> ELSE << >>,
                   Head(queue).action)
    /\ UNCHANGED <<sent, senders>>
    /\ RelayFrame

\* Err leaves handle_message through `?`, and the task that runs it panics
\* in .expect("Failed to handle message between the clients")
CallReturns(ok) ==
    /\ disp.pc = "call"
    /\ disp' = IF ok THEN IdleDispatcher ELSE StoppedDispatcher
    /\ ev' = Event("call_returns", << >>, IF ok THEN "ok" ELSE "error")
    /\ UNCHANGED <<queue, reqs, calls, sent, senders>>
    /\ RelayFrame

\* mutant of Respond: every inline query that arrives is answered
Respond_any_query(query, ok) ==
    /\ disp.pc = "respond"
    /\ \A text \in query :
          text # 0 => \E r \in DOMAIN reqs : /\ reqs[r].query = Some(text)
                                             /\ reqs[r].answer = None
    /\ IF query # None
       THEN LET m == CHOOSE x \in disp.msg : TRUE
                r == CHOOSE x \in DOMAIN reqs : reqs[x].number = disp.number
            IN  /\ calls' = Append(calls,
                       [handle |-> "bot", call |-> "answer_inline_query",
                        chat |-> 0, message_id |-> 0, input |-> m.input])
                /\ reqs' = IF ok
                           THEN [reqs EXCEPT ![r].answer =
                                   Some([title |-> disp.number, input |-> m.input])]
                           ELSE reqs
                /\ disp' = IF ok THEN IdleDispatcher ELSE StoppedDispatcher
                /\ ev' = Event("respond", <<query>>, IF ok THEN "ok" ELSE "error")
       ELSE /\ ok
            /\ ev' = Event("respond", <<query>>, "waiting")
            /\ UNCHANGED <<disp, reqs, calls>>
    /\ UNCHANGED <<queue, sent, senders>>
    /\ RelayFrame

\* mutant of Respond: a timeout of wait_for_inline_query ends the loop
Respond_gives_up(query, ok) ==
    /\ disp.pc = "respond"
    /\ \A text \in query :
          text # 0 => \E r \in DOMAIN reqs : /\ reqs[r].query = Some(text)
                                             /\ reqs[r].answer = None
    /\ IF query = Some(disp.number)
       THEN LET m == CHOOSE x \in disp.msg : TRUE
                r == CHOOSE x \in DOMAIN reqs : reqs[x].number = disp.number
            IN  /\ calls' = Append(calls,
                       [handle |-> "bot", call |-> "answer_inline_query",
                        chat |-> 0, message_id |-> 0, input |-> m.input])
                /\ reqs' = IF ok
                           THEN [reqs EXCEPT ![r].answer =
                                   Some([title |-> disp.number, input |-> m.input])]
                           ELSE reqs
                /\ disp' = IF ok THEN IdleDispatcher ELSE StoppedDispatcher
                /\ ev' = Event("respond", <<query>>, IF ok THEN "ok" ELSE "error")
       ELSE /\ ok
            /\ ev' = Event("respond", <<query>>, "waiting")
            /\ disp' = IF query = None THEN IdleDispatcher ELSE disp
            /\ UNCHANGED <<reqs, calls>>
    /\ UNCHANGED <<queue, sent, senders>>
    /\ RelayFrame

\* one turn of the responder loop: wait_for_inline_query(Some(10)) returns
\* Err (query = None) or an inline query; the query whose text is the nonce
\* is answered with one Article titled with the nonce and the loop ends (an
\* Err of the answer is unwrapped); after anything else the loop goes round
Respond(query, ok) ==
    /\ disp.pc = "respond"
    /\ \A text \in query :
          text # 0 => \E r \in DOMAIN reqs : /\ reqs[r].query = Some(text)
                                             /\ reqs[r].answer = None
    /\ IF query = Some(disp.number)
       THEN LET m == CHOOSE x \in disp.msg : TRUE
                r == CHOOSE x \in DOMAIN reqs : reqs[x].number = disp.number
            IN  /\ calls' = Append(calls,
                       [handle |-> "bot", call |-> "answer_inline_query",
                        chat |-> 0, message_id |-> 0, input |-> m.input])
                /\ reqs' = IF ok
                           THEN [reqs EXCEPT ![r].answer =
                                   Some([title |-> disp.number, input |-> m.input])]
                           ELSE reqs
                /\ disp' = IF ok THEN IdleDispatcher ELSE StoppedDispatcher
                /\ ev' = Event("respond", <<query>>, IF ok THEN "ok" ELSE "error")
       ELSE /\ ok
            /\ ev' = Event("respond", <<query>>, "waiting")
            /\ UNCHANGED <<disp, reqs, calls>>
    /\ UNCHANGED <<queue, sent, senders>>
    /\ RelayFrame

\* the first results.next(): the inline query is issued and reaches the bot
\* session, or the call fails before it does (an Err that is not
\* BOT_RESPONSE_TIMEOUT: the task logs it and ends)
ReqQuery(r, ok) ==
    /\ r \in DOMAIN reqs
    /\ reqs[r].pc = "query"
    /\ reqs' = IF ok
               THEN [reqs EXCEPT ![r].pc = "asked",
                                 ![r].query = Some(reqs[r].number)]
               ELSE [reqs EXCEPT ![r].pc = "done", ![r].outcome = "error"]
    /\ ev' = Event("req_query", <<r>>, IF ok THEN "asked" ELSE "Err")
    /\ UNCHANGED <<queue, disp, calls, sent, senders>>
    /\ RelayFrame

\* results.next() returns Ok(Some(result)), the responder's Article
\* ("Some") or another one ("Foreign"), Ok(None) ("None"), the error
\* BOT_RESPONSE_TIMEOUT ("Timeout") or another Err ("Err")
NextResults == {"Some", "Foreign", "None", "Timeout", "Err"}

\* mutant of ReqNext: BOT_RESPONSE_TIMEOUT ends the task like any Err
ReqNext_timeout_stops(r, res) ==
    /\ r \in DOMAIN reqs
    /\ reqs[r].pc = "asked"
    /\ res = "Some" => reqs[r].answer # None
    /\ CASE res = "None" ->
              UNCHANGED <<reqs, calls>>
         [] res \in {"Err", "Timeout"} ->
              /\ reqs' = [reqs EXCEPT ![r].pc = "done", ![r].outcome = "error"]
              /\ UNCHANGED calls
         [] OTHER ->
              LET result == IF res = "Some"
                            THEN CHOOSE x \in reqs[r].answer : TRUE
                            ELSE [title |-> 0, input |-> 0]
              IN  IF result.title = reqs[r].number
                  THEN /\ calls' = Append(calls,
                              [handle |-> "user", call |-> "send_inline_result",
                               chat |-> reqs[r].chat, message_id |-> 0,
                               input |-> result.input])
                       /\ reqs' = [reqs EXCEPT ![r].pc = "done",
                                               ![r].outcome = "sent"]
                  ELSE /\ reqs' = [reqs EXCEPT ![r].pc = "done",
                                               ![r].outcome = "foreign"]
                       /\ UNCHANGED calls
    /\ ev' = Event("req_next", <<r>>, res)
    /\ UNCHANGED <<queue, disp, sent, senders>>
    /\ RelayFrame

ReqNext(r, res) ==
    /\ r \in DOMAIN reqs
    /\ reqs[r].pc = "asked"
    /\ res = "Some" => reqs[r].answer # None
    /\ CASE res \in {"None", "Timeout"} ->
              UNCHANGED <<reqs, calls>>
         [] res = "Err" ->
              /\ reqs' = [reqs EXCEPT ![r].pc = "done", ![r].outcome = "error"]
              /\ UNCHANGED calls
         [] OTHER ->
              LET result == IF res = "Some"
                            THEN CHOOSE x \in reqs[r].answer : TRUE
                            ELSE [title |-> 0, input |-> 0]
              IN  IF result.title = reqs[r].number
                  THEN /\ calls' = Append(calls,
                              [handle |-> "user", call |-> "send_inline_result",
                               chat |-> reqs[r].chat, message_id |-> 0,
                               input |-> result.input])
                       /\ reqs' = [reqs EXCEPT ![r].pc = "done",
                                               ![r].outcome = "sent"]
                  ELSE /\ reqs' = [reqs EXCEPT ![r].pc = "done",
                                               ![r].outcome = "foreign"]
                       /\ UNCHANGED calls
    /\ ev' = Event("req_next", <<r>>, res)
    /\ UNCHANGED <<queue, disp, sent, senders>>
    /\ RelayFrame

\* what wait_for_inline_query can return: Err, or a query with a text
Queries == {None} \cup {Some(text) : text \in 0..MaxSent}

NextRelay ==
    \/ \E recipient \in Recipients, act \in Actions, chat \in Chats,
          input \in Inputs :
            /\ Len(sent) < MaxSent
            /\ act = "Undefined" => (chat = 1 /\ input = 1)
            /\ Produce(recipient, act, chat, 1, input)
    \/ Recv
    \/ \E ok \in BOOLEAN : CallReturns(ok)
    \/ \E query \in Queries, ok \in BOOLEAN : Respond(query, ok)
    \/ \E r \in 1..MaxSent, ok \in BOOLEAN : ReqQuery(r, ok)
    \/ \E r \in 1..MaxSent, res \in NextResults : ReqNext(r, res)

SpecRelay == InitRelay /\ [][NextRelay]_vars

(***************************************************************************)
(* SpecQueue: the relay channel with more requests than it has room for.   *)
(* The producers send SendMessage requests to the bot, the n-th with       *)
(* content n; the dispatcher is the one of SpecRelay.                      *)
(***************************************************************************)
NextQueue ==
    \/ /\ Len(sent) < MaxProduced
       /\ Produce("Bot", "SendMessage", 1, 1, Len(sent) + 1)
    \/ SendResume
    \/ Recv
    \/ \E ok \in BOOLEAN : CallReturns(ok)

SpecQueue == InitRelay /\ [][NextQueue]_vars

(***************************************************************************)
(* SpecStuck: one SendViaBotMessage request followed by SendMessage        *)
(* requests, more than the channel has room for; the n-th request has      *)
(* content n.  The dispatcher and the requester task are those of          *)
(* SpecRelay.                                                              *)
(***************************************************************************)
NextStuck ==
    \/ /\ sent = << >>
       /\ Produce("Bot", "SendViaBotMessage", 1, 1, 1)
    \/ /\ sent # << >>
       /\ Len(sent) < MaxProduced
       /\ Produce("Bot", "SendMessage", 1, 1, Len(sent) + 1)
    \/ SendResume
    \/ Recv
    \/ \E ok \in BOOLEAN : CallReturns(ok)
    \/ \E query \in Queries, ok \in BOOLEAN : Respond(query, ok)
    \/ \E r \in 1..MaxSent, ok \in BOOLEAN : ReqQuery(r, ok)
    \/ \E r \in 1..MaxSent, res \in NextResults : ReqNext(r, res)

SpecStuck == InitRelay /\ [][NextStuck]_vars

(***************************************************************************)
(* SpecStart: the start-game handlers of Spec together with the dispatcher *)
(* and the requester tasks of SpecRelay, which take the requests the       *)
(* handlers push and send the boards into the chats.                       *)
(***************************************************************************)
NextStart ==
    \/ \E t \in StartTasks, ps \in CommandPlayers : StartBegin(t, ps)
    \/ \E t \in StartTasks : StartSend(t)
    \/ Recv
    \/ \E query \in Queries, ok \in BOOLEAN : Respond(query, ok)
    \/ \E r \in 1..MaxSent, ok \in BOOLEAN : ReqQuery(r, ok)
    \/ \E r \in 1..MaxSent, res \in NextResults : ReqNext(r, res)

SpecStart == Init /\ [][NextStart]_vars

(***************************************************************************)
(* MyPolicy (main.rs), the ReconnectionPolicy given to both clients.  The  *)
(* library calls should_retry with the number of the failed attempt and    *)
(* sleeps for the Duration of Continue, or stops reconnecting on Break.    *)
(***************************************************************************)
\* mutant of should_retry: the delay doubles, 5 * 2^attempt
should_retry_doubling(attempt) ==
    LET max_attempts == 5
    IN  IF attempt >= max_attempts
        THEN [flow |-> "Break", secs |-> 0]
        ELSE [flow |-> "Continue", secs |-> 5 * (2 ^ attempt)]

\* MyPolicy::should_retry; secs is Duration::from_secs(time as u64)
should_retry(attempt) ==
    LET max_attempts == 5
    IN  IF attempt >= max_attempts
        THEN [flow |-> "Break", secs |-> 0]
        ELSE [flow |-> "Continue", secs |-> 5 * attempt]

(***************************************************************************)
(* SpecPolicy: should_retry called with any attempt numbers, in any order. *)
(***************************************************************************)
InitPolicy ==
    /\ games = << >>
    /\ issued = << >>
    /\ g = NewSession(1, <<Player_new(1)>>)
    /\ pre = << >>
    /\ ev = NoEvent
    /\ lock = FALSE
    /\ NoHandlers

ShouldRetry(attempt) ==
    /\ Len(policy) < MaxPolicyCalls
    /\ policy' = Append(policy, [attempt |-> attempt, ret |-> should_retry(attempt)])
    /\ ev' = Event("should_retry", <<attempt>>, should_retry(attempt).flow)
    /\ UNCHANGED <<g, pre, games, issued, queue, starts, clicks, races, lock,
                   disp, reqs, calls, sent, senders, purge>>

NextPolicy == \E attempt \in 0..MaxAttempt : ShouldRetry(attempt)

SpecPolicy == InitPolicy /\ [][NextPolicy]_vars

(***************************************************************************)
(* The purge handlers: purge of plugins/bot/purge.rs ("bot_purge"), purge  *)
(* and purge_me of plugins/user/purge.rs ("user_purge", "purge_me").  All  *)
(* three are one loop: for each chunk of 100 message ids (purge) or each   *)
(* message id (purge_me) a platform call, delete_messages or get_message,  *)
(* and a match on what it returned.  purge_me then deletes a message of    *)
(* the sender with msg.delete().await?.  n is the number of chunks, chunk  *)
(* the one the loop is at, log the platform calls of the loop with what    *)
(* they returned, sleeps the seconds slept after rate-limit signals.       *)
(***************************************************************************)
PurgeKinds == {"bot_purge", "user_purge", "purge_me"}

\* what delete_messages or get_message returns: Ok, or an Err that is one
\* of the three the match names, or another; get_message returns Ok with
\* a message of the sender ("Ok") or with none or another's ("NotMine")
Responses(kind) ==
    {"Ok", "MESSAGE_ID_INVALID", "MESSAGE_DELETE_FORBIDDEN", "FLOOD_WAIT", "Other"}
        \cup (IF kind = "purge_me" THEN {"NotMine"} ELSE {})

\* mutant of time: every sleep is 5 seconds
time_flat(waited) == 5

\* let time = 5 * (waited + 1)
time(waited) == 5 * (waited + 1)

\* the handler has returned: "purged" after the loop ran out of chunks,
\* "forbidden" and "purge_error" from the arms that return, "failed" for an
\* Err that left through `?`
Ended(p, outcome) == [p EXCEPT !.pc = "done", !.outcome = outcome]

\* the end of one turn of the for loop: the next chunk, or the "purged"
\* message after the last one
NextChunk(p) ==
    IF p.chunk < p.n
    THEN [p EXCEPT !.pc = "call", !.chunk = p.chunk + 1]
    ELSE Ended([p EXCEPT !.chunk = p.n + 1], "purged")

Logged(p, call, res) ==
    [p EXCEPT !.log = Append(p.log, [call |-> call, chunk |-> p.chunk, res |-> res])]

InitPurge ==
    /\ games = << >>
    /\ issued = << >>
    /\ g = NewSession(1, <<Player_new(1)>>)
    /\ pre = << >>
    /\ ev = NoEvent
    /\ lock = FALSE
    /\ queue = << >> /\ starts = << >> /\ clicks = << >> /\ races = 0
    /\ disp = IdleDispatcher
    /\ reqs = << >> /\ calls = << >> /\ sent = << >> /\ senders = << >>
    /\ policy = << >>
    /\ \E kind \in PurgeKinds, n \in 1..MaxChunks :
          purge = [pc |-> "call", kind |-> kind, n |-> n, chunk |-> 1,
                   waited |-> 0, purged_messages |-> 0,
                   log |-> << >>, sleeps |-> << >>, outcome |-> "none"]

PurgeFrame ==
    UNCHANGED <<g, pre, games, issued, queue, starts, clicks, races, lock,
                disp, reqs, calls, sent, senders, policy>>

(***************************************************************************)
(* SpecPurge: one purge handler from the first turn of its loop, with any  *)
(* response of the platform to each call.  Each action is a stretch        *)
(* between two .awaits:                                                    *)
(*   PurgeCall     delete_messages (get_message) returns; the match arm up *)
(*                 to its first .await                                     *)
(*   PurgeDeleted  purge_me: msg.delete() returns                          *)
(*   PurgeNotice   the flood_wait notice was sent, or ctx.reply failed     *)
(*   PurgeWake     the sleep is over and the notice deleted, or            *)
(*                 sent.delete() failed                                    *)
(***************************************************************************)
PurgeCall(res) ==
    /\ purge.pc = "call"
    /\ res \in Responses(purge.kind)
    /\ LET call == IF purge.kind = "purge_me" THEN "get_message"
                   ELSE "delete_messages"
           p    == Logged(purge, call, res)
       IN  purge' =
             CASE res = "Ok" ->
                    IF purge.kind = "purge_me"
                    THEN [p EXCEPT !.pc = "deleting",
                                   !.purged_messages = p.purged_messages + 1]
                    ELSE NextChunk([p EXCEPT !.purged_messages =
                                                p.purged_messages + 1])
               [] res = "NotMine" ->
                    NextChunk(p)
               [] res = "MESSAGE_ID_INVALID" ->
                    IF purge.kind = "purge_me"
                    THEN Ended(p, "purge_error")
                    ELSE NextChunk(p)
               [] res = "MESSAGE_DELETE_FORBIDDEN" ->
                    IF purge.kind = "purge_me"
                    THEN Ended(p, "purge_error")
                    ELSE Ended(p, "forbidden")
               [] res = "FLOOD_WAIT" ->
                    [p EXCEPT !.pc = "notice", !.waited = p.waited + 1]
               [] OTHER ->
                    Ended(p, "purge_error")
    /\ ev' = Event("purge_call", <<purge.chunk>>, res)
    /\ PurgeFrame

\* purge_me: msg.delete().await? on a message of the sender
PurgeDeleted(res) ==
    /\ purge.pc = "deleting"
    /\ LET p == Logged(purge, "delete", res)
       IN  purge' = IF res = "Ok" THEN NextChunk(p) ELSE Ended(p, "failed")
    /\ ev' = Event("purge_deleted", <<purge.chunk>>, res)
    /\ PurgeFrame

\* ctx.reply(flood_wait).await?, then tokio::time::sleep(time) begins;
\* waited was incremented already, time was computed before
PurgeNotice(ok) ==
    /\ purge.pc = "notice"
    /\ purge' = IF ok
                THEN [purge EXCEPT !.pc = "sleeping",
                                   !.sleeps = Append(purge.sleeps,
                                                     time(purge.waited - 1))]
                ELSE Ended(purge, "failed")
    /\ ev' = Event("purge_notice", <<purge.chunk>>, IF ok THEN "ok" ELSE "error")
    /\ PurgeFrame

\* the sleep is over; sent.delete().await?, and the for loop goes on
PurgeWake(ok) ==
    /\ purge.pc = "sleeping"
    /\ purge' = IF ok THEN NextChunk(purge) ELSE Ended(purge, "failed")
    /\ ev' = Event("purge_wake", <<purge.chunk>>, IF ok THEN "ok" ELSE "error")
    /\ PurgeFrame

NextPurge ==
    \/ \E res \in UNION {Responses(kind) : kind \in PurgeKinds} : PurgeCall(res)
    \/ \E res \in {"Ok", "MESSAGE_DELETE_FORBIDDEN", "FLOOD_WAIT"} : PurgeDeleted(res)
    \/ \E ok \in BOOLEAN : PurgeNotice(ok)
    \/ \E ok \in BOOLEAN : PurgeWake(ok)

SpecPurge == InitPurge /\ [][NextPurge]_vars

\* every platform call returns: a handler that can take a step takes one
SpecPurgeLive == SpecPurge /\ WF_vars(NextPurge)

(***************************************************************************)
(* What the properties below call a line: the cells of one row, of one     *)
(* column or of one of the two diagonals of an n x n board, written out    *)
(* cell by cell and not as Game::play scans them.                          *)
(***************************************************************************)
Lines(n) ==
    {{<<c, r>> : r \in 0..(n - 1)} : c \in 0..(n - 1)}
        \cup {{<<c, r>> : c \in 0..(n - 1)} : r \in 0..(n - 1)}
        \cup {{<<i, i>> : i \in 0..(n - 1)}}
        \cup {{<<i, n - 1 - i>> : i \in 0..(n - 1)}}

CompleteLine(board, symbol) ==
    \E L \in Lines(VecLen(board)) : \A cell \in L : board[cell[1]][cell[2]] = symbol

SomeCompleteLine(board) ==
    CompleteLine(board, SYMBOLS[0]) \/ CompleteLine(board, SYMBOLS[1])

EmptyCells(board) ==
    {<<c, r>> \in (DOMAIN board) \X (0..(BoardSize - 1)) :
        r \in DOMAIN board[c] /\ board[c][r] = SYMBOLS[2]}

Seated(s) == DOMAIN s.players

(***************************************************************************)
(* C1.  For every sequence of add_player calls on a session created by     *)
(* TicTacToe::new with one or two players, the number of seated players    *)
(* never exceeds players_limit() = 2, and an add_player call made when the *)
(* limit is already reached returns false and leaves the whole session     *)
(* (players, state, current player, board, winner) as it was.              *)
(***************************************************************************)
C1_SeatsWithinLimit ==
    /\ Cardinality(Seated(g)) <= 2
    /\ (ev.op = "add_player" /\ Cardinality(Seated(pre)) >= 2)
          => (ev.ret = FALSE /\ g = pre)

\* a player who is not seated is turned away from a full session whose
\* board already holds moves
C1_Witness ==
    /\ ev.op = "add_player"
    /\ ev.ret = FALSE
    /\ Cardinality(Seated(pre)) = 2
    /\ ev.arg[1] \notin Seated(pre)
    /\ EmptyCells(g.board) # (DOMAIN g.board) \X (0..(BoardSize - 1))

(***************************************************************************)
(* C2.  add_player called with a player whose id is already seated returns *)
(* false and leaves the session unchanged: the seated player's symbol, the *)
(* state and the current player are not modified.                          *)
(***************************************************************************)
C2_SeatedPlayerRejected ==
    (ev.op = "add_player" /\ ev.arg[1] \in Seated(pre))
        => /\ ev.ret = FALSE
           /\ g = pre
           /\ g.players[ev.arg[1]].symbol = pre.players[ev.arg[1]].symbol

\* the only seated player, holding symbol SYMBOLS[0], asks for a seat again
\* while a seat is free
C2_Witness ==
    /\ ev.op = "add_player"
    /\ ev.ret = FALSE
    /\ Seated(pre) = {ev.arg[1]}
    /\ pre.players[ev.arg[1]].symbol = SYMBOLS[0]

(***************************************************************************)
(* C6.  play(col,row) on a session whose state is End is never accepted:   *)
(* it returns false and changes nothing, even when the addressed cell is   *)
(* Empty and a current player exists.                                      *)
(***************************************************************************)
C6_NoMoveAfterEnd ==
    (ev.op = "play" /\ pre.state = "End") => (ev.ret = FALSE /\ g = pre)

(***************************************************************************)
(* C7.  After an accepted move that leaves a row, a column or a diagonal   *)
(* filled with the mover's symbol, is_over() is true and winner() is the   *)
(* player who made the move; the moves (0,0)=A,(1,1)=B,(0,1)=A,(2,2)=B,    *)
(* (0,2)=A on a 3 x 3 board end with is_over() and winner() = P1; and the  *)
(* winner is set by nothing but a move that completes such a line.         *)
(***************************************************************************)
ScenarioBoard ==
    [c \in 0..2 |-> [r \in 0..2 |->
        IF c = 0 THEN SYMBOLS[0]
        ELSE IF <<c, r>> \in {<<1, 1>>, <<2, 2>>} THEN SYMBOLS[1]
        ELSE SYMBOLS[2]]]

C7_LineWins ==
    /\ (ev.op = "play" /\ ev.ret)
          => LET mover  == pre.current_player
                 symbol == pre.players[mover].symbol
             IN  /\ CompleteLine(g.board, symbol)
                       => (is_over(g) /\ winner(g) = Some(g.players[mover]))
                 /\ g.winner # pre.winner
                       => (CompleteLine(g.board, symbol) /\ g.winner = Some(mover))
    /\ ev.op # "play" => g.winner = pre.winner
    /\ (ev.op = "play" /\ ev.ret /\ ev.arg = <<0, 2>> /\ g.board = ScenarioBoard)
          => LET P1 == pre.current_player
             IN  is_over(g) /\ winner(g) = Some([id |-> P1, symbol |-> SYMBOLS[0]])

\* the scenario's last move, made by P1 = 1 against P2 = 2
C7_Witness ==
    /\ ev.op = "play" /\ ev.ret /\ ev.arg = <<0, 2>>
    /\ g.board = ScenarioBoard
    /\ pre.current_player = 1
    /\ Seated(g) = {1, 2}
    /\ pre.state = "Start"

(***************************************************************************)
(* C8.  An accepted move that fills the last Empty cell without any row,   *)
(* column or diagonal being complete leaves is_over() true and winner()    *)
(* empty; and while a cell is Empty and no line is complete, is_over() is  *)
(* false.                                                                  *)
(***************************************************************************)
C8_Draw ==
    /\ (ev.op = "play" /\ ev.ret /\ EmptyCells(g.board) = {}
            /\ ~SomeCompleteLine(g.board))
          => (is_over(g) /\ winner(g) = None)
    /\ (EmptyCells(g.board) # {} /\ ~SomeCompleteLine(g.board)) => ~is_over(g)

\* the ninth move of a drawn game
C8_Witness ==
    /\ ev.op = "play" /\ ev.ret
    /\ EmptyCells(g.board) = {}
    /\ Cardinality(EmptyCells(pre.board)) = 1
    /\ ~SomeCompleteLine(g.board)
    /\ is_over(g)

(***************************************************************************)
(* C9.  With two players seated, switch_player makes a seated player other *)
(* than the previous current player the current one; successive calls      *)
(* alternate between the two ids; and last_player holds the previous       *)
(* current player.                                                         *)
(***************************************************************************)
C9_SwitchAlternates ==
    ev.op = "switch_player"
        => /\ g.last_player = pre.current_player
           /\ Cardinality(Seated(pre)) >= 2
                 => /\ g.current_player \in Seated(g)
                    /\ g.current_player # pre.current_player
                    \* the call after this one
                    /\ \A nxt \in SwitchChoices(g) :
                          LET h == switch_player(g, nxt)
                          IN  /\ h.current_player \in Seated(g) \ {g.current_player}
                              /\ h.last_player = g.current_player
                              /\ pre.current_player \in Seated(pre)
                                    => h.current_player = pre.current_player

\* the second of two successive calls on a session of two players: the
\* current player is back to the one before the first call
C9_Witness ==
    /\ ev.op = "switch_player"
    /\ Cardinality(Seated(g)) = 2
    /\ pre.current_player \in Seated(g)
    /\ pre.last_player = g.current_player
    /\ g.last_player = pre.current_player
    /\ g.current_player # pre.current_player

(***************************************************************************)
(* C3.  For any sequence of GameManager operations, each call of new_id    *)
(* returns a value strictly greater than the value returned by every       *)
(* earlier call of new_id.                                                 *)
(***************************************************************************)
C3_NewIdStrictlyIncreasing ==
    \A i \in DOMAIN issued : \A j \in DOMAIN issued :
        i < j => issued[i].id < issued[j].id

(***************************************************************************)
(* C10.  For every stored id, update_game(get_game(id)) with no mutation   *)
(* of the copy in between succeeds and leaves the collection as it was:    *)
(* the number of sessions, their order and every field of every session.   *)
(***************************************************************************)
C10_RoundTripNoOp ==
    ev.op = "round_trip" => (ev.ret /\ games = pre)

\* a round trip on the second of two stored sessions that differ in their
\* players
C10_Witness ==
    /\ ev.op = "round_trip"
    /\ Len(games) = 2
    /\ games[2].id = ev.arg[1]
    /\ games[1].id # ev.arg[1]
    /\ games[1].players # games[2].players
    /\ games[2].state = "Playing"

(***************************************************************************)
(* C4.  In every reachable state, for every interleaving of start-game     *)
(* handlers and click handlers, no two sessions stored in the GameManager  *)
(* have the same id.                                                       *)
(***************************************************************************)
C4_UniqueStoredIds ==
    \A i \in DOMAIN games : \A j \in DOMAIN games :
        i # j => games[i].id # games[j].id

(***************************************************************************)
(* C5.  The session a click handler read with get_game, and the copy a     *)
(* suspended click handler holds.                                          *)
(***************************************************************************)
Stored(game_id) == CHOOSE x \in get_game(games, game_id) : TRUE
Held(t) == CHOOSE x \in clicks[t].game : TRUE

Rejections == {"not_your_turn", "ocupied_cell", "not_in_game"}

C18_UpdateOfUnknownIdFails ==
    (ev.op = "update_game" /\ get_game(pre, ev.arg[1]) = None)
        => /\ ev.ret = FALSE
           /\ games = pre
           /\ get_game(games, ev.arg[1]) = None

\* update_game of an id that is not stored, on a manager that stores others
C18_Witness ==
    /\ ev.op = "update_game"
    /\ get_game(pre, ev.arg[1]) = None
    /\ Len(pre) > 0
    /\ ev.ret = FALSE

(***************************************************************************)
(* C11.  The get/mutate/update cycle is last-writer-wins.  A click handler *)
(* that reaches update_game with its copy replaces the entry stored under  *)
(* the id by that copy, whatever another handler stored there since the    *)
(* copy was read: the call succeeds, nothing is reported, and the stored   *)
(* session is the copy alone.                                              *)
(***************************************************************************)
C11_LastWriterWins ==
    [][\A t \in ClickTasks :
          (/\ clicks[t].pc = "editing"
           /\ clicks'[t] # clicks[t]
           /\ ev'.op = "click_commit"
           /\ FindGame(games, Held(t).id) # 0
           /\ ~is_over(Held(t)))
             => /\ ev'.ret = "updated"
                /\ get_game(games', Held(t).id) = Some(Held(t))
                /\ Len(games') = Len(games)
      ]_vars

\* a cell of the board holds a symbol
Marked(s, cell) == s.board[cell[1]][cell[2]] # SYMBOLS[2]

\* the second of two racing handlers has committed: the entry it replaced
\* held the first handler's move, the entry now stored does not
C11_Witness ==
    /\ ev.op = "click_commit"
    /\ ev.ret = "updated"
    /\ ev.arg[1] # None
    /\ LET replaced == CHOOSE x \in ev.arg[1] : TRUE
       IN  /\ get_game(games, replaced.id) # None
           /\ \E cell \in ClickCells :
                 /\ Marked(replaced, cell)
                 /\ ~Marked(Stored(replaced.id), cell)
           /\ \E cell \in ClickCells :
                 /\ ~Marked(replaced, cell)
                 /\ Marked(Stored(replaced.id), cell)

(***************************************************************************)
(* C17.  No session stored in the GameManager has state End: the handler   *)
(* of the move that ends a game removes the session instead of committing  *)
(* it, and from then on get_game does not find the id: an id under which a *)
(* session was added and is stored no more stays not found.                *)
(***************************************************************************)
NoEndStored == \A i \in DOMAIN games : ~is_over(games[i])

WasAdded(id) == \E i \in DOMAIN issued : issued[i].id = id /\ issued[i].added

C17_EndedSessionGone ==
    /\ []NoEndStored
    /\ [][/\ (ev'.op = "click_commit" /\ ev'.ret = "removed")
                => \E t \in ClickTasks :
                      /\ clicks[t].pc = "editing"
                      /\ is_over(Held(t))
                      /\ get_game(games', Held(t).id) = None
          /\ \A id \in 1..(NumStarts + 1) :
                (WasAdded(id) /\ get_game(games, id) = None)
                    => get_game(games', id) = None
         ]_vars

(***************************************************************************)
(* C19.  get_game returns a detached copy.  What a click handler does to   *)
(* the session it read (add_player, set_current_player, play and play's    *)
(* switch_player) is done to its copy: the manager's sessions stay as they *)
(* were in every stretch that ends before update_game or remove_game, so   *)
(* that a get_game in between returns the stored value.                    *)
(***************************************************************************)
C19_CopyIsDetached ==
    [][(\/ ev'.op = "click_begin"
        \/ ev'.op = "click_joined" /\ ev'.ret \in {"played", "ocupied_cell"}
        \/ ev'.op = "click_error")
           => /\ games' = games
              /\ \A id \in 1..MaxClickId : get_game(games', id) = get_game(games, id)
      ]_vars

\* a handler began while another one holds a copy with a move on it: it
\* read the stored session, without that move, and played on its own copy
C19_Witness ==
    /\ ev.op = "click_begin"
    /\ ev.ret = "played"
    /\ get_game(games, ev.arg[2]) # None
    /\ \E t \in ClickTasks, u \in ClickTasks :
          /\ t # u
          /\ clicks[t].pc = "editing" /\ clicks[u].pc = "editing"
          /\ Held(t).id = ev.arg[2] /\ Held(u).id = ev.arg[2]
          /\ Held(t) # Stored(ev.arg[2])
          /\ Held(u) # Stored(ev.arg[2])
          /\ Held(t) # Held(u)

(***************************************************************************)
(* The requests the dispatcher has taken from the channel: those passed to *)
(* tx.send that are neither pending nor held by a suspended producer.      *)
(***************************************************************************)
Taken == Len(sent) - Len(queue) - Len(senders)

SendRequests(requests, recipient) ==
    SelectSeq(requests,
              LAMBDA m : m.action = "SendMessage" /\ m.recipient = recipient)

SendCalls(handle) ==
    SelectSeq(calls, LAMBDA c : c.call = "send_message" /\ c.handle = handle)

ClientOf(recipient) == IF recipient = "Bot" THEN "bot" ELSE "user"

(***************************************************************************)
(* C12.  The SendMessage requests addressed to one recipient that the      *)
(* dispatcher has taken from the channel and the send_message calls the    *)
(* client of that recipient has received are the same in number, and the   *)
(* i-th call carries the chat and the content of the i-th request; the     *)
(* requests still pending are the ones not taken yet.  When the channel is *)
(* drained, N requests have made exactly N calls, in enqueue order.        *)
(***************************************************************************)
C12_SendMessagesInOrder ==
    /\ Taken >= 0
    /\ queue = SubSeq(sent, Taken + 1, Taken + Len(queue))
    /\ \A recipient \in Recipients :
          LET taken == SendRequests(SubSeq(sent, 1, Taken), recipient)
              made  == SendCalls(ClientOf(recipient))
          IN  /\ Len(made) = Len(taken)
              /\ \A i \in DOMAIN made :
                    /\ made[i].chat = taken[i].chat
                    /\ made[i].input = taken[i].input

\* the channel is drained after two SendMessage requests to the user
\* client, with different chats and contents, and a request of another
\* kind went through it
C12_Witness ==
    /\ queue = << >>
    /\ disp.pc = "recv"
    /\ Len(sent) = 3
    /\ LET mine == SendRequests(sent, "User")
       IN  /\ Len(mine) = 2
           /\ mine[1].chat # mine[2].chat
           /\ mine[1].input # mine[2].input
           /\ Len(SendCalls("user")) = 2

(***************************************************************************)
(* C13.  The dispatcher takes the next request from the channel only after *)
(* the previous one has run to completion: when it takes one, the          *)
(* requester task of every earlier SendViaBotMessage request has finished  *)
(* (it has sent the result into the chat, or given up).                    *)
(***************************************************************************)
C13_RoundTripBeforeNextRecv ==
    ev.op = "recv"
        => \A r \in DOMAIN reqs :
              (ev.ret = "SendViaBotMessage" => r < Len(reqs))
                  => reqs[r].pc = "done"

(***************************************************************************)
(* C14.  A platform error returned to the dispatcher (by send_message, by  *)
(* edit_message or by the answer to the inline query) does not stop its    *)
(* loop: after the error the dispatcher is at rx.recv() again, and it is   *)
(* never stopped.                                                          *)
(***************************************************************************)
C14_ErrorKeepsLoop ==
    /\ disp.pc # "stopped"
    /\ (ev.op \in {"call_returns", "respond"} /\ ev.ret = "error")
          => disp.pc = "recv"

(***************************************************************************)
(* C15.  No request passed to tx.send, pending in the channel, held by a   *)
(* suspended producer or being executed by the dispatcher has action       *)
(* SendViaBotMessage and recipient User: send_via_bot_message on a request *)
(* of Message::to_user() panics, and no request is built.                  *)
(***************************************************************************)
ViaBotToUser(m) == m.action = "SendViaBotMessage" /\ m.recipient = "User"

C15_NoViaBotToUser ==
    /\ \A i \in DOMAIN queue : ~ViaBotToUser(queue[i])
    /\ \A i \in DOMAIN senders : ~ViaBotToUser(senders[i])
    /\ \A i \in DOMAIN sent : ~ViaBotToUser(sent[i])
    /\ \A m \in disp.msg : ~ViaBotToUser(m)
    /\ (ev.op = "produce" /\ ev.arg = <<"User", "SendViaBotMessage">>)
          => ev.ret = "panic"
    /\ \A chat \in Chats, input \in Inputs :
          ~send_via_bot_message(to_user, chat, input).ok

\* a producer has just called send_via_bot_message on Message::to_user()
C15_Witness ==
    /\ ev.op = "produce"
    /\ ev.arg = <<"User", "SendViaBotMessage">>
    /\ ev.ret = "panic"
    /\ sent # << >>

(***************************************************************************)
(* C16.  A requester task stops only after it has sent the result titled   *)
(* with its nonce into the target chat, or on an error: a result with      *)
(* another title does not make it stop.  The message it sends carries the  *)
(* content the responder answered with.                                    *)
(***************************************************************************)
C16_OnlyNonceResultEndsRequester ==
    \A r \in DOMAIN reqs :
        /\ (reqs[r].pc = "done" /\ reqs[r].outcome # "error")
              => reqs[r].outcome = "sent"
        /\ reqs[r].outcome = "sent"
              => \E i \in DOMAIN calls :
                    /\ calls[i].call = "send_inline_result"
                    /\ calls[i].chat = reqs[r].chat
                    /\ \A a \in reqs[r].answer : calls[i].input = a.input

C21_NoSwitchOnFinalMove ==
    (ev.op = "play" /\ ev.ret = TRUE /\ ~is_over(pre) /\ is_over(g))
        => /\ g.current_player = pre.current_player
           /\ g.last_player = pre.last_player

(***************************************************************************)
(* C23.  Seat assignment is positional.  The player a session is created   *)
(* for has symbol A (SYMBOLS[0]) and is the current player.  The first     *)
(* accepted add_player call moves the state from Start to Playing and      *)
(* makes the joiner the current player; every later joiner gets symbol B   *)
(* (SYMBOLS[1]) and leaves the current player as it was.                   *)
(***************************************************************************)
C23_PositionalSeats ==
    /\ ev.op = "none"
          => /\ has_player(g, g.current_player)
             /\ g.players[g.current_player].symbol = SYMBOLS[0]
             /\ g.state = "Start"
    /\ (ev.op = "add_player" /\ ev.ret = TRUE /\ pre.state = "Start")
          => /\ g.state = "Playing"
             /\ g.current_player = ev.arg[1]
    /\ (ev.op = "add_player" /\ ev.ret = TRUE /\ pre.state # "Start")
          => /\ g.players[ev.arg[1]].symbol = SYMBOLS[1]
             /\ g.current_player = pre.current_player

(***************************************************************************)
(* C24.  remove_game(session) deletes what is stored under session.id and  *)
(* leaves the sessions stored under other ids as they were, in the order   *)
(* they were in; for an id that is not stored it changes nothing, and it   *)
(* reports no error either way.                                            *)
(***************************************************************************)
\* the positions of the entries stored under another id, and the k-th of them
OtherIds(active_games, id) == {i \in DOMAIN active_games : active_games[i].id # id}
NthOther(active_games, id, k) ==
    CHOOSE i \in OtherIds(active_games, id) :
        Cardinality({j \in OtherIds(active_games, id) : j <= i}) = k

C24_RemoveKeepsOthers ==
    ev.op = "remove_game"
        => LET id == ev.arg[1]
           IN  /\ ev.ret = TRUE
               /\ get_game(games, id) = None
               /\ Len(games) = Cardinality(OtherIds(pre, id))
               /\ \A k \in DOMAIN games : games[k] = pre[NthOther(pre, id, k)]
               /\ get_game(pre, id) = None => games = pre

\* the session in the middle of three has just been removed
C24_Witness ==
    /\ ev.op = "remove_game"
    /\ Len(pre) = 3
    /\ pre[2].id = ev.arg[1]
    /\ Len(games) = 2
    /\ games[1] # games[2]

(***************************************************************************)
(* C22, as stated.  After switch_player found no seated player other than  *)
(* the current one and set the current player to 0, current_player() is    *)
(* empty and every play call is rejected, the board unchanged, until       *)
(* set_current_player is called with the id of a seated player: no other   *)
(* call ends it.                                                           *)
(***************************************************************************)
C22_NoTurnUntilSetCurrentPlayer ==
    [][(/\ g.current_player = 0
        /\ ~(ev'.op = "set_current_player" /\ has_player(g, ev'.arg[1])))
           => /\ current_player(g') = None
              /\ ev'.op = "play" => (ev'.ret = FALSE /\ g'.board = g.board)
      ]_vars

(***************************************************************************)
(* C22, amended.  When no seated player other than the current one exists, *)
(* switch_player sets the current player to 0.  While the current player   *)
(* is 0, current_player() is empty, every play call is rejected and leaves *)
(* the session as it was, and add_player leaves the current player 0; it   *)
(* stops being 0 through set_current_player, or through a further call of  *)
(* switch_player, which makes a seated player the current one.             *)
(***************************************************************************)
C22_NoTurnWhileSentinel ==
    [][/\ (ev'.op = "switch_player" /\ Seated(g) \ {g.current_player} = {})
             => g'.current_player = 0
       /\ g.current_player = 0
             => /\ current_player(g) = None
                /\ ev'.op = "play" => (ev'.ret = FALSE /\ g' = g)
                /\ ev'.op = "add_player" => g'.current_player = 0
                /\ ev'.op = "set_current_player" => g'.current_player = ev'.arg[1]
                /\ (ev'.op = "switch_player" /\ Seated(g) # {})
                      => g'.current_player \in Seated(g)
                /\ g'.current_player # 0
                      => ev'.op \in {"set_current_player", "switch_player"}
      ]_vars

\* play on an empty cell has just been rejected in a session with a seated
\* player and no current player, which the only player's move left so
C22_Witness ==
    /\ ev.op = "play"
    /\ ev.ret = FALSE
    /\ pre.current_player = 0
    /\ pre.last_player \in Seated(pre)
    /\ pre.board[ev.arg[1]][ev.arg[2]] = SYMBOLS[2]
    /\ g = pre


(***************************************************************************)
(* The SendMessage and EditMessage requests among some requests, and the   *)
(* send_message and edit_message calls the two clients have received.      *)
(***************************************************************************)
DirectRequests(requests) ==
    SelectSeq(requests, LAMBDA m : m.action \in {"SendMessage", "EditMessage"})

DirectCalls ==
    SelectSeq(calls, LAMBDA c : c.call \in {"send_message", "edit_message"})

(***************************************************************************)
(* C25.  For SendMessage and EditMessage the recipient alone selects the   *)
(* client: the i-th such request the dispatcher has taken made the i-th    *)
(* send_message or edit_message call, on the bot client when the recipient *)
(* is Bot and on the user client when it is User, with the chat, message   *)
(* id and content of the request; there are no other such calls, so the    *)
(* request made exactly one call on that client and none on the other.     *)
(***************************************************************************)
C25_RecipientSelectsHandle ==
    LET taken == DirectRequests(SubSeq(sent, 1, Taken))
        made  == DirectCalls
    IN  /\ Len(made) = Len(taken)
        /\ \A i \in DOMAIN made :
              /\ made[i].handle = ClientOf(taken[i].recipient)
              /\ made[i].call = IF taken[i].action = "SendMessage"
                                THEN "send_message" ELSE "edit_message"
              /\ made[i].chat = taken[i].chat
              /\ made[i].message_id = taken[i].message_id
              /\ made[i].input = taken[i].input
        /\ \A handle \in {"bot", "user"} :
              Cardinality({i \in DOMAIN made : made[i].handle = handle})
                 = Cardinality({i \in DOMAIN taken :
                                   ClientOf(taken[i].recipient) = handle})

\* an EditMessage request to each client and a SendMessage request have
\* been executed
C25_Witness ==
    /\ Taken = 3
    /\ disp.pc = "recv"
    /\ \E i, j \in 1..3 :
          /\ sent[i].action = "EditMessage" /\ sent[i].recipient = "Bot"
          /\ sent[j].action = "EditMessage" /\ sent[j].recipient = "User"
          /\ sent[i].chat # sent[j].chat
    /\ \E k \in 1..3 : sent[k].action = "SendMessage"
    /\ Len(calls) = 3

(***************************************************************************)
(* C26.  A request built by to_bot() or to_user() alone has action         *)
(* Undefined.  When the dispatcher takes such a request it makes no call   *)
(* on either client and starts no round trip, logs the error "Undefined    *)
(* action", and is at rx.recv() again for the next request.                *)
(***************************************************************************)
C26_UndefinedIsNoOp ==
    /\ [](to_bot.action = "Undefined" /\ to_user.action = "Undefined")
    /\ [][(ev'.op = "recv" /\ Head(queue).action = "Undefined")
             => /\ ev'.ret = "Undefined"
                /\ ev'.arg = <<"Undefined action">>
                /\ calls' = calls
                /\ reqs' = reqs
                /\ disp'.pc = "recv"
                /\ queue' = Tail(queue)
         ]_vars

\* the dispatcher has taken a SendMessage request after an Undefined one
C26_Witness ==
    /\ ev.op = "recv"
    /\ ev.ret = "SendMessage"
    /\ Taken = 2
    /\ sent[1].action = "Undefined"
    /\ Len(calls) = 1

(***************************************************************************)
(* C27.  In a round trip with nonce N the responder answers only the       *)
(* inline query whose text is N, with one Article whose title is N and     *)
(* whose content is the content of the request, and then leaves its loop.  *)
(* An inline query with another text and a timeout of                      *)
(* wait_for_inline_query are not answered, and the responder waits on.     *)
(* Nothing else answers an inline query for the dispatcher.                *)
(***************************************************************************)
AnswerCalls(made) ==
    SelectSeq(made, LAMBDA c : c.call = "answer_inline_query")

C27_ResponderAnswersOnlyNonce ==
    [][/\ ev'.op = "respond"
            => IF ev'.arg[1] = Some(disp.number)
               THEN /\ Len(calls') = Len(calls) + 1
                    /\ \A m \in disp.msg :
                          calls'[Len(calls')] =
                             [handle |-> "bot", call |-> "answer_inline_query",
                              chat |-> 0, message_id |-> 0, input |-> m.input]
                    /\ disp'.pc # "respond"
                    /\ ev'.ret = "ok"
                          => \A r \in DOMAIN reqs :
                                IF reqs[r].number = disp.number
                                THEN \A m \in disp.msg :
                                        reqs'[r].answer =
                                           Some([title |-> disp.number,
                                                 input |-> m.input])
                                ELSE reqs'[r] = reqs[r]
               ELSE /\ ev'.ret = "waiting"
                    /\ calls' = calls
                    /\ reqs' = reqs
                    /\ disp' = disp
       /\ AnswerCalls(calls') # AnswerCalls(calls) => ev'.op = "respond"
      ]_vars

\* the responder of the second round trip has answered the query with
\* nonce 2, after the one of the first round trip answered its own
C27_Witness ==
    /\ ev.op = "respond"
    /\ ev.ret = "ok"
    /\ ev.arg = <<Some(2)>>
    /\ Len(reqs) = 2
    /\ reqs[1].answer # None
    /\ reqs[2].answer = Some([title |-> 2, input |-> 2])
    /\ Len(AnswerCalls(calls)) = 2

(***************************************************************************)
(* C28.  The requester task goes on polling after Ok(None) and after       *)
(* BOT_RESPONSE_TIMEOUT: neither ends it nor makes it send anything.  Any  *)
(* other error ends it without a result sent into the target chat.  A task *)
(* that has ended stays ended, and the results sent into chats are one for *)
(* each task that found its result: at most one per round trip.            *)
(***************************************************************************)
ResultCalls ==
    SelectSeq(calls, LAMBDA c : c.call = "send_inline_result")

C28_RequesterRetriesAndSendsOnce ==
    /\ [](Len(ResultCalls)
             = Cardinality({r \in DOMAIN reqs : reqs[r].outcome = "sent"}))
    /\ [][/\ (ev'.op = "req_next" /\ ev'.ret \in {"None", "Timeout"})
               => /\ reqs' = reqs
                  /\ reqs'[ev'.arg[1]].pc = "asked"
                  /\ calls' = calls
          /\ (ev'.op \in {"req_next", "req_query"} /\ ev'.ret = "Err")
               => /\ reqs'[ev'.arg[1]].pc = "done"
                  /\ reqs'[ev'.arg[1]].outcome = "error"
                  /\ calls' = calls
          /\ \A r \in DOMAIN reqs :
                reqs[r].pc = "done"
                   => /\ reqs'[r].pc = "done"
                      /\ reqs'[r].outcome = reqs[r].outcome
         ]_vars

\* results.next() has just returned BOT_RESPONSE_TIMEOUT to a requester
\* whose answer is ready, after an earlier requester sent its result
C28_Witness ==
    /\ ev.op = "req_next"
    /\ ev.ret = "Timeout"
    /\ Len(reqs) = 2
    /\ reqs[1].outcome = "sent"
    /\ reqs[2].pc = "asked"
    /\ reqs[2].answer # None
    /\ Len(ResultCalls) = 1


(***************************************************************************)
(* C29.  Nothing tells the responder that the requester gave up.  Once the *)
(* requester task of the round trip in progress has ended on an error      *)
(* before its inline query reached the bot session, the dispatcher stays   *)
(* in the responder loop in every later state: it takes no further request *)
(* and makes no further call, the requests pending or held by suspended   *)
(* producers stay so in their order, and once 10 are pending every         *)
(* producer that calls tx.send is suspended and stays suspended.           *)
(***************************************************************************)
Stuck ==
    /\ disp.pc = "respond"
    /\ \E r \in DOMAIN reqs : /\ reqs[r].number = disp.number
                              /\ reqs[r].pc = "done"
                              /\ reqs[r].query = None

C29_StuckResponderBlocksRelay ==
    /\ [](Len(queue) <= QueueDepth)
    /\ [][Stuck
            => /\ Stuck'
               /\ disp' = disp
               /\ calls' = calls
               /\ Taken' = Taken
               /\ SubSeq(queue', 1, Len(queue)) = queue
               /\ SubSeq(queue' \o senders', 1, Len(queue) + Len(senders))
                     = queue \o senders
               /\ Len(queue) = QueueDepth
                     => /\ queue' = queue
                        /\ SubSeq(senders', 1, Len(senders)) = senders
                        /\ ev'.op = "produce"
                              => /\ ev'.ret = "suspended"
                                 /\ Len(senders') = Len(senders) + 1
         ]_vars

\* wait_for_inline_query has timed out again in a round trip whose
\* requester gave up before its query left, with 10 requests pending and
\* a producer suspended
C29_Witness ==
    /\ Stuck
    /\ ev.op = "respond"
    /\ ev.ret = "waiting"
    /\ Taken = 1
    /\ Len(queue) = 10
    /\ Len(senders) = 1
    /\ calls = << >>


(***************************************************************************)
(* C30.  The lock of the manager is free whenever a step is over: no       *)
(* operation of the manager leaves it held, so none holds it while a       *)
(* handler is suspended.  Hence, however the handlers interleave, the      *)
(* try_lock of new_id, add_game, get_game, update_game and remove_game     *)
(* finds the lock free.                                                    *)
(***************************************************************************)
C30_LockNeverHeld ==
    /\ lock = FALSE
    /\ ENABLED WithLock

\* a click handler has just called get_game and is suspended in the edit
\* of the message, while a start-game handler that called new_id is
\* suspended in tx.send and sessions are stored
C30_Witness ==
    /\ ev.op = "click_begin"
    /\ ev.ret = "played"
    /\ \E t \in ClickTasks : clicks[t].pc = "editing"
    /\ \E t \in StartTasks : starts[t].pc = "send"
    /\ games # << >>


(***************************************************************************)
(* C31.  The reconnection policy is a bounded linear backoff: for every    *)
(* attempt below 5 should_retry returns Continue with 5 * attempt seconds, *)
(* so that each attempt waits 5 seconds more than the one before, and for  *)
(* every attempt from 5 on it returns Break.                               *)
(***************************************************************************)
C31_BoundedLinearBackoff ==
    /\ \A i \in DOMAIN policy :
          IF policy[i].attempt < 5
          THEN policy[i].ret = [flow |-> "Continue", secs |-> 5 * policy[i].attempt]
          ELSE policy[i].ret.flow = "Break"
    /\ \A i, j \in DOMAIN policy :
          (policy[j].attempt = policy[i].attempt + 1 /\ policy[j].attempt < 5)
              => policy[j].ret.secs = policy[i].ret.secs + 5

\* should_retry has been called with attempts 3, 4 and 5
C31_Witness ==
    /\ Len(policy) = 3
    /\ policy[1].attempt = 3 /\ policy[1].ret.secs = 15
    /\ policy[2].attempt = 4 /\ policy[2].ret.secs = 20
    /\ policy[3].attempt = 5 /\ policy[3].ret.flow = "Break"


(***************************************************************************)
(* The calls of the loop, delete_messages or get_message, in a purge.      *)
(***************************************************************************)
LoopCalls(p) ==
    SelectSeq(p.log, LAMBDA c : c.call \in {"delete_messages", "get_message"})

(***************************************************************************)
(* C32.  In a bulk purge a chunk whose delete call ended in a rate-limit   *)
(* signal is tried again after the sleep: the next delete call is for the  *)
(* same chunk.  No chunk is skipped for it, so when the purge reports      *)
(* success every chunk has had a delete call that did not end in a         *)
(* rate-limit signal.                                                      *)
(***************************************************************************)
C32_FloodedChunkRetried ==
    purge.pc # "idle" =>
        LET made == LoopCalls(purge)
        IN  /\ \A i \in DOMAIN made :
                  (made[i].res = "FLOOD_WAIT" /\ i < Len(made))
                      => made[i + 1].chunk = made[i].chunk
            /\ purge.outcome = "purged"
                  => \A chunk \in 1..purge.n :
                        \E i \in DOMAIN made : /\ made[i].chunk = chunk
                                               /\ made[i].res # "FLOOD_WAIT"


(***************************************************************************)
(* The rate-limit signals among some calls.                                *)
(***************************************************************************)
Floods(made) == SelectSeq(made, LAMBDA c : c.res = "FLOOD_WAIT")

\* the calls that end the handler: an Err the match returns on, and any Err
\* of msg.delete()
Fatal(kind, c) ==
    \/ c.res \in {"MESSAGE_DELETE_FORBIDDEN", "Other"}
    \/ c.call = "delete" /\ c.res # "Ok"
    \/ kind = "purge_me" /\ c.res = "MESSAGE_ID_INVALID"

C34_NoUpdateAfterRemove ==
    ~(ev.op \in {"click_commit", "click_joined"} /\ ev.ret = "panic")

(***************************************************************************)
(* C35.  The board of a stored session only grows: a cell that holds a     *)
(* player's symbol in the session stored under an id holds the same symbol *)
(* in the session stored under that id after any step of any handler.      *)
(***************************************************************************)
C35_StoredBoardGrows ==
    [][\A id \in GameIds :
          \A a \in get_game(games, id), b \in get_game(games', id) :
             \A column \in DOMAIN a.board :
                \A row \in DOMAIN a.board[column] :
                   a.board[column][row] # SYMBOLS[2]
                       => b.board[column][row] = a.board[column][row]
      ]_vars

(***************************************************************************)
(* C36.  Ending one game removes only that game: when a click handler      *)
(* whose move ended a stored session calls remove_game, the number of      *)
(* stored sessions goes down by exactly one and every other stored session *)
(* is still stored.                                                        *)
(***************************************************************************)
C36_RemoveOnlyEndedGame ==
    [][\A t \in ClickTasks :
          (/\ clicks[t].pc = "editing"
           /\ clicks'[t].pc = "idle"
           /\ ev'.op = "click_commit"
           /\ ev'.ret = "removed"
           /\ get_game(games, Held(t).id) # None)
              => /\ Len(games') = Len(games) - 1
                 /\ \E i \in DOMAIN games :
                       games' = SubSeq(games, 1, i - 1)
                                   \o SubSeq(games, i + 1, Len(games))
      ]_vars


(***************************************************************************)
(* C37.  A game is registered before it can be played.  Whenever the       *)
(* request that publishes the board of a session is pending in the relay   *)
(* channel, is being executed by the dispatcher, or has made a call on a   *)
(* client (the answer to the inline query, the board sent into the chat),  *)
(* get_game finds a session under the id on that board: the handler that   *)
(* pushed the request has added its session before any other task ran.     *)
(* The sessions stored are as many as the requests pushed, and a handler   *)
(* whose tx.send fails adds none.                                          *)
(***************************************************************************)
C37_RegisteredBeforePlayable ==
    /\ [](/\ \A i \in DOMAIN queue : get_game(games, queue[i].input) # None
          /\ \A m \in disp.msg : get_game(games, m.input) # None
          /\ \A i \in DOMAIN calls : get_game(games, calls[i].input) # None
          /\ Len(games) = Len(queue) + Len(reqs)
          /\ Len(games) = Cardinality({i \in DOMAIN issued : issued[i].added}))
    /\ [][(ev'.op = "start" /\ ev'.ret = "send_error")
             => (games' = games /\ queue' = queue /\ issued' = issued)]_vars

\* the board of the second session has been sent into the chat
C37_Witness ==
    /\ Len(games) = 2
    /\ games[2].id = 2
    /\ ev.op = "req_next"
    /\ \E i \in DOMAIN calls : /\ calls[i].call = "send_inline_result"
                               /\ calls[i].input = 2


(***************************************************************************)
(* C38.  In every session the handlers can reach (TicTacToe::new with the  *)
(* sender and, optionally, the replied-to user, then joins and moves) two  *)
(* different seated players have different symbols and no seated player    *)
(* has the symbol of an empty cell; every symbol on the board is the       *)
(* symbol of exactly one seated player.                                    *)
(***************************************************************************)
C38_DistinctSymbols ==
    /\ \A a \in Seated(g), b \in Seated(g) :
          a # b => g.players[a].symbol # g.players[b].symbol
    /\ \A a \in Seated(g) : g.players[a].symbol # SYMBOLS[2]
    /\ \A column \in DOMAIN g.board :
          \A row \in DOMAIN g.board[column] :
             g.board[column][row] # SYMBOLS[2]
                => Cardinality({a \in Seated(g) :
                                  g.players[a].symbol = g.board[column][row]}) = 1

\* players 1 and 3 are seated and one of them has completed a line
C38_Witness ==
    /\ Seated(g) = {1, 3}
    /\ g.state = "End"
    /\ g.winner # None
    /\ ev.op = "play"


(***************************************************************************)
(* The number of cells of a board that hold a symbol.                      *)
(***************************************************************************)
CellsWith(board, symbol) ==
    Cardinality({cell \in (DOMAIN board) \X (0..(BoardSize - 1)) :
                    /\ cell[2] \in DOMAIN board[cell[1]]
                    /\ board[cell[1]][cell[2]] = symbol})

(***************************************************************************)
(* C39.  Turns alternate in every stored session: on the board of every    *)
(* session stored in the manager, the cells with symbol A (SYMBOLS[0]) and *)
(* the cells with symbol B (SYMBOLS[1]) differ in number by at most one,   *)
(* however the join and move handlers interleave.                          *)
(***************************************************************************)
C39_TurnsAlternate ==
    \A i \in DOMAIN games :
        LET a == CellsWith(games[i].board, SYMBOLS[0])
            b == CellsWith(games[i].board, SYMBOLS[1])
        IN  a - b \in {-1, 0, 1}


\* player 3, who joined a session after it was started, and its first
\* player have made three moves between them
C39_Witness ==
    /\ ev.op = "click_commit"
    /\ \E i \in DOMAIN games :
          /\ 3 \in Seated(games[i])
          /\ CellsWith(games[i].board, SYMBOLS[0]) = 2
          /\ CellsWith(games[i].board, SYMBOLS[1]) = 1

=============================================================================
